---- MODULE Spec2Model ----
(***************************************************************************)
(* A model of the red-black tree of gc_lib (src/src/gc_rb_tree.c,          *)
(* src/include/gc_rb_tree.h).                                              *)
(*                                                                         *)
(* The heap is a function from node addresses to RBTreeNode records.       *)
(* Address NIL is the sentinel tree->nil; NULLN is the C NULL node pointer.*)
(* A payload (void *data) is a record [key, id]: the comparator of the     *)
(* tests (int_cmp, person_cmp) reads only the key, pointer identity is the *)
(* whole record.  NULLP is the C NULL payload pointer.                     *)
(***************************************************************************)
EXTENDS Integers, Sequences, FiniteSets, Bags, TLC

\* ------------------------------------------------------------------ bounds
MaxKey == 7         \* keys 1..MaxKey in the mutation specifications
MaxCopies == 2      \* payload objects per key in the duplicate specification
MaxDupKey == 3      \* keys 1..MaxDupKey in the duplicate specification
MaxTwinKey == 2     \* of these, 1..MaxTwinKey come in copies where the order is recorded
MaxQKey == 4        \* keys 1..MaxQKey in the query specifications
MaxBoundKey == 5    \* keys 1..MaxBoundKey in the bound-query specification
MaxTurnKey == 8     \* keys 1..MaxTurnKey where the fixup loops are counted
MaxReadKey == 3     \* keys 1..MaxReadKey in the specification of all the queries
MaxDeepKey == 10    \* keys 1..MaxDeepKey inserted in rising order, for deep delete walks
MaxDaKey == 9       \* keys 1..MaxDaKey in the growable-buffer specification
MaxDaMix == 3       \* of these, 1..MaxDaMix are inserted in any order
MaxHKey == 16       \* hash-table keys 0..MaxHKey
MaxHLive == 2       \* entries held in the hash table at a time
MaxHVal == 2        \* hash-table values 1..MaxHVal
MaxIKey == 16       \* keys 0..MaxIKey of the generated integer table
MaxIOdd == 1        \* keys the caller has changed or removed at a time
MaxShape == 4       \* nodes of a hand-built structure given to validate
MaxShapeKey == 3    \* keys 1..MaxShapeKey in a hand-built structure

\* --------------------------------------------------------------- constants
RED == 0
BLACK == 1
GC_RB_TREE_OK == 0
GC_RB_TREE_ERR_BST == 1
GC_RB_TREE_ERR_RED == 2
GC_RB_TREE_ERR_BLACK_HEIGHT == 3
GC_RB_TREE_ERR_NIL_COLOR == -2
GC_RB_TREE_ERR_GENERIC == -4
GC_RB_RANGE_INCLUSIVE_LOW == 1
GC_RB_RANGE_INCLUSIVE_HIGH == 2
GC_RB_TREE_SLICE_DESCENDING == 32768
GC_INIT_CAP == 8
GC_SLOT_EMPTY == 0
GC_SLOT_OCCUPIED == 1
GC_SLOT_TOMBSTONE == 2
GC_HASH_MIN_CAPACITY == 16

NIL == 0            \* the address of the sentinel
NULLN == -1         \* NULL as a node pointer
Addrs == 1..(MaxKey * MaxCopies)         \* the addresses malloc hands out
NULLP == [key |-> 0, id |-> -1]         \* NULL as a payload / bound pointer
Obj(k, i) == [key |-> k, id |-> i]      \* the i-th payload object of key k
Probe(k) == [key |-> k, id |-> 0]       \* a caller's temporary holding key k

VARIABLES
  root,    \* tree->root
  node,    \* the heap: address -> RBTreeNode
  allocd,  \* the node addresses malloc'ed and not yet freed
  live,    \* the payloads handed to insert and not yet removed
  out,     \* the last API call and what it returned
  it,      \* the caller's RBTreeIterator, with the payloads it has yielded
  rit,     \* the caller's RBTreeRangeIterator, with the payloads it has yielded
  ub,      \* "no", or how the last call's comparison against NULL ended
  mem,     \* what has been freed and destroyed: tree record, sentinel, payloads
  ht,      \* the caller's GC_HashTable
  born     \* the payloads in the tree in the order of their insertion, where
           \* the caller keeps that record (<<>> where it does not)

treeVars == <<root, node, allocd, live>>
auxVars == <<mem, ht, born>>
vars == <<root, node, allocd, live, out, it, rit, ub, mem, ht, born>>

\* ------------------------------------------------------------- comparator
\* int_cmp / person_cmp: (a > b) - (a < b) on the keys. u is what the build
\* yields for a comparison that dereferences NULL and does not trap.
Sign(a, b) == IF a > b THEN 1 ELSE IF a < b THEN -1 ELSE 0
Cmp(a, b, u) == IF a = NULLP \/ b = NULLP THEN u ELSE Sign(a.key, b.key)

\* -------------------------------------------------------------- the heap
FreeNode == [data |-> NULLP, color |-> BLACK, left |-> NIL, right |-> NIL, parent |-> NIL]
Tree == [root |-> root, n |-> node]

SetColor(T, x, c) == [T EXCEPT !.n[x].color = c]
SetLeft(T, x, v) == [T EXCEPT !.n[x].left = v]
SetRight(T, x, v) == [T EXCEPT !.n[x].right = v]
SetParent(T, x, v) == [T EXCEPT !.n[x].parent = v]

\* gc_rb_tree_alloc_node: malloc returns some free address and no operation
\* depends on which, so the node made for payload p gets the address AddrOf(p)
\* (one per payload object); the node starts RED with all links on the sentinel.
AddrOf(p) == (p.id - 1) * MaxKey + p.key
AllocNode(T, z, data) ==
  [T EXCEPT !.n[z] = [data |-> data, color |-> RED, left |-> NIL, right |-> NIL, parent |-> NIL]]

Left(T, x) == T.n[x].left
Right(T, x) == T.n[x].right
Parent(T, x) == T.n[x].parent
Color(T, x) == T.n[x].color
SetRoot(T, v) == [T EXCEPT !.root = v]

\* x->right = y->left; if (y->left != nil) y->left->parent = x;
RotL1(T, x, y) ==
  IF Left(T, y) # NIL
  THEN SetParent(SetRight(T, x, Left(T, y)), Left(T, y), x)
  ELSE SetRight(T, x, Left(T, y))

\* y->parent = x->parent; then y takes x's place under x->parent
RotL2(T, x, y) ==
  IF Parent(T, x) = NIL THEN SetRoot(SetParent(T, y, Parent(T, x)), y)
  ELSE IF x = Left(T, Parent(T, x))
  THEN SetLeft(SetParent(T, y, Parent(T, x)), Parent(T, x), y)
  ELSE SetRight(SetParent(T, y, Parent(T, x)), Parent(T, x), y)

\* y->left = x; x->parent = y;
RotL3(T, x, y) == SetParent(SetLeft(T, y, x), x, y)

\* Seeded fault: the subtree moved under x keeps its old parent link.
LeftRotateStaleParent(T, x) ==
  RotL3(RotL2(SetRight(T, x, Left(T, Right(T, x))), x, Right(T, x)), x, Right(T, x))

LeftRotate(T, x) ==
  RotL3(RotL2(RotL1(T, x, Right(T, x)), x, Right(T, x)), x, Right(T, x))

\* y->left = x->right; if (x->right != nil) x->right->parent = y;
RotR1(T, y, x) ==
  IF Right(T, x) # NIL
  THEN SetParent(SetLeft(T, y, Right(T, x)), Right(T, x), y)
  ELSE SetLeft(T, y, Right(T, x))

\* x->parent = y->parent; then x takes y's place under y->parent
RotR2(T, y, x) ==
  IF Parent(T, y) = NIL THEN SetRoot(SetParent(T, x, Parent(T, y)), x)
  ELSE IF y = Right(T, Parent(T, y))
  THEN SetRight(SetParent(T, x, Parent(T, y)), Parent(T, y), x)
  ELSE SetLeft(SetParent(T, x, Parent(T, y)), Parent(T, y), x)

\* x->right = y; y->parent = x;
RotR3(T, y, x) == SetParent(SetRight(T, x, y), y, x)

RightRotate(T, y) ==
  RotR3(RotR2(RotR1(T, y, Left(T, y)), y, Left(T, y)), y, Left(T, y))

Grand(T, k) == Parent(T, Parent(T, k))

\* Seeded fault: the recolouring step leaves the grandparent BLACK.
InsRecolorKeepGrand(T, k, uncle) ==
  SetColor(SetColor(T, Parent(T, k), BLACK), uncle, BLACK)

\* uncle RED: parent and uncle BLACK, grandparent RED
InsRecolor(T, k, uncle) ==
  SetColor(SetColor(SetColor(T, Parent(T, k), BLACK), uncle, BLACK), Grand(T, k), RED)

\* Seeded fault: the outer case leaves the parent RED.
InsOuterLParentRed(T, k) == RightRotate(SetColor(T, Grand(T, k), RED), Grand(T, k))

\* uncle BLACK, k the outer child: recolour, rotate the grandparent
InsOuterL(T, k) ==
  RightRotate(SetColor(SetColor(T, Parent(T, k), BLACK), Grand(T, k), RED), Grand(T, k))
\* Seeded fault: the mirrored outer case recolours and does not rotate.
InsOuterRNoRotate(T, k) == SetColor(SetColor(T, Parent(T, k), BLACK), Grand(T, k), RED)

InsOuterR(T, k) ==
  LeftRotate(SetColor(SetColor(T, Parent(T, k), BLACK), Grand(T, k), RED), Grand(T, k))

\* Seeded fault: the fixup only forces the root BLACK.
InsertFixupRootOnly(T, k) == SetColor(T, T.root, BLACK)

RECURSIVE InsertFixup(_, _)
InsertFixup(T, k) ==
  IF Color(T, Parent(T, k)) # RED THEN SetColor(T, T.root, BLACK)
  ELSE IF Parent(T, k) = Left(T, Grand(T, k))
  THEN IF Color(T, Right(T, Grand(T, k))) = RED
       THEN InsertFixup(InsRecolor(T, k, Right(T, Grand(T, k))), Grand(T, k))
       ELSE IF k = Right(T, Parent(T, k))
       THEN InsertFixup(InsOuterL(LeftRotate(T, Parent(T, k)), Parent(T, k)), Parent(T, k))
       ELSE InsertFixup(InsOuterL(T, k), k)
  ELSE IF Color(T, Left(T, Grand(T, k))) = RED
       THEN InsertFixup(InsRecolor(T, k, Left(T, Grand(T, k))), Grand(T, k))
       ELSE IF k = Left(T, Parent(T, k))
       THEN InsertFixup(InsOuterR(RightRotate(T, Parent(T, k)), Parent(T, k)), Parent(T, k))
       ELSE InsertFixup(InsOuterR(T, k), k)

\* Seeded fault: the descent goes left on a tie.
RECURSIVE InsertDescendTiesLeft(_, _, _, _)
InsertDescendTiesLeft(T, data, x, y) ==
  IF x = NIL THEN y
  ELSE IF Cmp(data, T.n[x].data, 0) <= 0
       THEN InsertDescendTiesLeft(T, data, T.n[x].left, x)
       ELSE InsertDescendTiesLeft(T, data, T.n[x].right, x)

\* The descent of gc_rb_tree_insert: the parent y under which z is linked.
RECURSIVE InsertDescend(_, _, _, _)
InsertDescend(T, data, x, y) ==
  IF x = NIL THEN y
  ELSE IF Cmp(data, T.n[x].data, 0) < 0
       THEN InsertDescend(T, data, T.n[x].left, x)
       ELSE InsertDescend(T, data, T.n[x].right, x)

\* Seeded fault: the new node is always linked as the left child.
InsertLinkLeft(T, z, data, y) ==
  IF y = NIL THEN SetRoot(SetParent(T, z, y), z)
  ELSE SetLeft(SetParent(T, z, y), y, z)

\* z->parent = y; then z is linked under y (or becomes the root)
InsertLink(T, z, data, y) ==
  IF y = NIL THEN SetRoot(SetParent(T, z, y), z)
  ELSE IF Cmp(data, T.n[y].data, 0) < 0 THEN SetLeft(SetParent(T, z, y), y, z)
  ELSE SetRight(SetParent(T, z, y), y, z)

InsertAt(T, z, data) == InsertLink(T, z, data, InsertDescend(T, data, T.root, NIL))

TreeInsert(T, z, data) == InsertFixup(InsertAt(AllocNode(T, z, data), z, data), z)

\* ---------------------------------------------------------------- search
\* Seeded fault: the descent turns the wrong way.
RECURSIVE SearchFromSwapped(_, _, _)
SearchFromSwapped(T, data, x) ==
  IF x = NIL THEN NIL
  ELSE LET c == Cmp(data, T.n[x].data, 0) IN
       IF c = 0 THEN x
       ELSE IF c < 0 THEN SearchFromSwapped(T, data, T.n[x].right)
       ELSE SearchFromSwapped(T, data, T.n[x].left)

RECURSIVE SearchFrom(_, _, _)
SearchFrom(T, data, x) ==
  IF x = NIL THEN NIL
  ELSE LET c == Cmp(data, T.n[x].data, 0) IN
       IF c = 0 THEN x
       ELSE IF c < 0 THEN SearchFrom(T, data, T.n[x].left)
       ELSE SearchFrom(T, data, T.n[x].right)

TreeSearch(T, data) == SearchFrom(T, data, T.root)

TreeFind(T, key) ==
  LET x == TreeSearch(T, key) IN IF x # NIL THEN T.n[x].data ELSE NULLP

\* -------------------------------------------------------------- deletion
Transplant(T, u, v) ==
  IF Parent(T, u) = NIL THEN SetParent(SetRoot(T, v), v, Parent(T, u))
  ELSE IF u = Left(T, Parent(T, u))
  THEN SetParent(SetLeft(T, Parent(T, u), v), v, Parent(T, u))
  ELSE SetParent(SetRight(T, Parent(T, u), v), v, Parent(T, u))

RECURSIVE Minimum(_, _)
Minimum(T, x) == IF T.n[x].left # NIL THEN Minimum(T, T.n[x].left) ELSE x

RECURSIVE Maximum(_, _)
Maximum(T, x) == IF T.n[x].right # NIL THEN Maximum(T, T.n[x].right) ELSE x

\* sibling RED: w BLACK, parent RED, rotate the parent towards x
DelRedSibL(T, x, w) ==
  LeftRotate(SetColor(SetColor(T, w, BLACK), Parent(T, x), RED), Parent(T, x))
DelRedSibR(T, x, w) ==
  RightRotate(SetColor(SetColor(T, w, BLACK), Parent(T, x), RED), Parent(T, x))

\* Seeded fault: the near-child case rotates w towards x.
DelNearLTowards(T, w) == LeftRotate(SetColor(SetColor(T, Left(T, w), BLACK), w, RED), w)

\* far child BLACK: near child BLACK, w RED, rotate w away from x
DelNearL(T, w) == RightRotate(SetColor(SetColor(T, Left(T, w), BLACK), w, RED), w)
DelNearR(T, w) == LeftRotate(SetColor(SetColor(T, Right(T, w), BLACK), w, RED), w)

\* far child RED: w takes the parent's colour, parent and far child BLACK,
\* rotate the parent towards x
DelFarL(T, x, w) ==
  LeftRotate(SetColor(SetColor(SetColor(T, w, Color(T, Parent(T, x))),
                               Parent(T, x), BLACK), Right(T, w), BLACK),
             Parent(T, x))
DelFarR(T, x, w) ==
  RightRotate(SetColor(SetColor(SetColor(T, w, Color(T, Parent(T, x))),
                                Parent(T, x), BLACK), Left(T, w), BLACK),
              Parent(T, x))

\* x = tree->root ends the loop, and x->color = BLACK follows it
DelEnd(T) == SetColor(T, T.root, BLACK)

\* w = x->parent->right (left) is read again after the rotation of w
DelFarAtL(T, x) == DelFarL(T, x, Right(T, Parent(T, x)))
DelFarAtR(T, x) == DelFarR(T, x, Left(T, Parent(T, x)))

RECURSIVE DeleteFixup(_, _)
RECURSIVE DelBlackSibL(_, _, _)
RECURSIVE DelBlackSibR(_, _, _)
RECURSIVE DelSideL(_, _)
RECURSIVE DelSideR(_, _)

\* The loop body from the second if on, x a left child, w its sibling
DelBlackSibL(T, x, w) ==
  IF Color(T, Left(T, w)) = BLACK /\ Color(T, Right(T, w)) = BLACK
  THEN DeleteFixup(SetColor(T, w, RED), Parent(T, x))
  ELSE IF Color(T, Right(T, w)) = BLACK
  THEN DelEnd(DelFarAtL(DelNearL(T, w), x))
  ELSE DelEnd(DelFarL(T, x, w))

DelBlackSibR(T, x, w) ==
  IF Color(T, Right(T, w)) = BLACK /\ Color(T, Left(T, w)) = BLACK
  THEN DeleteFixup(SetColor(T, w, RED), Parent(T, x))
  ELSE IF Color(T, Left(T, w)) = BLACK
  THEN DelEnd(DelFarAtR(DelNearR(T, w), x))
  ELSE DelEnd(DelFarR(T, x, w))

\* Seeded fault: the sibling is read on x's own side, so that w is x.
DelSideLOwn(T, x) == DelBlackSibL(T, x, Left(T, Parent(T, x)))

\* w = x->parent->right (left), read after the sibling-RED rotation if any
DelSideL(T, x) == DelBlackSibL(T, x, Right(T, Parent(T, x)))
DelSideR(T, x) == DelBlackSibR(T, x, Left(T, Parent(T, x)))

\* Seeded fault: the loop runs, the x->color = BLACK after it does not.
DeleteFixupKeepColor(T, x) ==
  IF ~(x # T.root /\ Color(T, x) = BLACK) THEN T
  ELSE IF x = Left(T, Parent(T, x))
  THEN IF Color(T, Right(T, Parent(T, x))) = RED
       THEN DelSideL(DelRedSibL(T, x, Right(T, Parent(T, x))), x)
       ELSE DelSideL(T, x)
  ELSE IF Color(T, Left(T, Parent(T, x))) = RED
       THEN DelSideR(DelRedSibR(T, x, Left(T, Parent(T, x))), x)
       ELSE DelSideR(T, x)

DeleteFixup(T, x) ==
  IF ~(x # T.root /\ Color(T, x) = BLACK) THEN SetColor(T, x, BLACK)
  ELSE IF x = Left(T, Parent(T, x))
  THEN IF Color(T, Right(T, Parent(T, x))) = RED
       THEN DelSideL(DelRedSibL(T, x, Right(T, Parent(T, x))), x)
       ELSE DelSideL(T, x)
  ELSE IF Color(T, Left(T, Parent(T, x))) = RED
       THEN DelSideR(DelRedSibR(T, x, Left(T, Parent(T, x))), x)
       ELSE DelSideR(T, x)

\* Seeded fault: the fixup is never called.
DelRepairNever(T, x, c) == T

\* if (y_original_color == BLACK) gc_rb_tree_delete_fixup(tree, x);
DelRepair(T, x, c) == IF c = BLACK THEN DeleteFixup(T, x) ELSE T

\* node has two children, y its successor: x = y->right is spliced up
DelAdopt(T, z, y) == SetParent(SetRight(T, y, Right(T, z)), Right(T, z), y)
DelSplice(T, z, y) ==
  IF Parent(T, y) = z THEN SetParent(T, Right(T, y), y)
  ELSE DelAdopt(Transplant(T, y, Right(T, y)), z, y)

\* Seeded fault: y takes node's payload along with its left subtree and colour.
DelTakePayload(T, z, y) ==
  [SetColor(SetParent(SetLeft(T, y, Left(T, z)), Left(T, z), y), y, Color(T, z))
     EXCEPT !.n[y].data = T.n[z].data]

\* ... and y takes node's place, left subtree and colour
DelTake(T, z, y) ==
  SetColor(SetParent(SetLeft(T, y, Left(T, z)), Left(T, z), y), y, Color(T, z))
\* Seeded fault: the successor is spliced out and node stays where it is.
DelReplaceNone(T, z, y) == T

DelReplace(T, z, y) == DelTake(Transplant(T, z, y), z, y)

DelTwo(T, z, y) ==
  DelRepair(DelReplace(DelSplice(T, z, y), z, y), Right(T, y), Color(T, y))

\* gc_rb_tree_delete up to the release of the node: the relinking and the
\* fixup. The caller's action releases z afterwards.
TreeDelete(T, z) ==
  IF z = NIL THEN T
  ELSE IF Left(T, z) = NIL
  THEN DelRepair(Transplant(T, z, Right(T, z)), Right(T, z), Color(T, z))
  ELSE IF Right(T, z) = NIL
  THEN DelRepair(Transplant(T, z, Left(T, z)), Left(T, z), Color(T, z))
  ELSE DelTwo(T, z, Minimum(T, Right(T, z)))

\* ------------------------------------------------- the fixups, step by step
\* The same statements as InsertFixup and DeleteFixup, one loop iteration at a
\* time: t the structure after the iteration, k (x) the node the next
\* iteration starts from, red the nodes the iteration's statements painted RED.

\* One iteration of the while loop of gc_rb_tree_insert_fixup (k's parent RED).
\* rot: the calls of left_rotate and right_rotate in the iteration.
InsIter(T, k) ==
  IF Parent(T, k) = Left(T, Grand(T, k))
  THEN IF Color(T, Right(T, Grand(T, k))) = RED
       THEN [t |-> InsRecolor(T, k, Right(T, Grand(T, k))), k |-> Grand(T, k),
             red |-> {Grand(T, k)}, rot |-> 0]
       ELSE IF k = Right(T, Parent(T, k))
       THEN [t |-> InsOuterL(LeftRotate(T, Parent(T, k)), Parent(T, k)),
             k |-> Parent(T, k), red |-> {Grand(T, k)}, rot |-> 2]
       ELSE [t |-> InsOuterL(T, k), k |-> k, red |-> {Grand(T, k)}, rot |-> 1]
  ELSE IF Color(T, Left(T, Grand(T, k))) = RED
       THEN [t |-> InsRecolor(T, k, Left(T, Grand(T, k))), k |-> Grand(T, k),
             red |-> {Grand(T, k)}, rot |-> 0]
       ELSE IF k = Left(T, Parent(T, k))
       THEN [t |-> InsOuterR(RightRotate(T, Parent(T, k)), Parent(T, k)),
             k |-> Parent(T, k), red |-> {Grand(T, k)}, rot |-> 2]
       ELSE [t |-> InsOuterR(T, k), k |-> k, red |-> {Grand(T, k)}, rot |-> 1]

\* gc_rb_tree_insert_fixup as the structures seen at each test of the loop
\* condition (mid), the nodes painted RED (red) and the structure returned (fin).
RECURSIVE InsertFixupWalk(_, _, _, _)
InsertFixupWalk(T, k, mid, red) ==
  IF Color(T, Parent(T, k)) # RED
  THEN [mid |-> Append(mid, T), red |-> red, fin |-> SetColor(T, T.root, BLACK)]
  ELSE LET s == InsIter(T, k) IN
       InsertFixupWalk(s.t, s.k, Append(mid, T), red \cup s.red)

\* gc_rb_tree_insert: the new node is painted RED, linked, and fixed up.
InsertWalk(T, z, data) ==
  InsertFixupWalk(InsertAt(AllocNode(T, z, data), z, data), z, <<>>, {z})

\* One iteration of the while loop of gc_rb_tree_delete_fixup, x a left child
\* (x is not the root and is BLACK). w is read again after each rotation.
\* rot: the calls of left_rotate and right_rotate, far: the iteration ran the
\* far-child-RED statements (x = tree->root), ws: the values w took.
DelIterL(T, x) ==
  LET sibRed == Color(T, Right(T, Parent(T, x))) = RED
      T1 == IF sibRed THEN DelRedSibL(T, x, Right(T, Parent(T, x))) ELSE T
      r1 == IF sibRed THEN {Parent(T, x)} ELSE {}
      n1 == IF sibRed THEN 1 ELSE 0
      w == Right(T1, Parent(T1, x))
  IN  IF Color(T1, Left(T1, w)) = BLACK /\ Color(T1, Right(T1, w)) = BLACK
      THEN [t |-> SetColor(T1, w, RED), x |-> Parent(T1, x), red |-> r1 \cup {w},
            rot |-> n1, far |-> FALSE, ws |-> {Right(T, Parent(T, x)), w}]
      ELSE IF Color(T1, Right(T1, w)) = BLACK
      THEN LET T2 == DelNearL(T1, w)
               w2 == Right(T2, Parent(T2, x))
               T3 == DelFarL(T2, x, w2)
           IN  [t |-> T3, x |-> T3.root,
                red |-> r1 \cup {w}
                        \cup (IF Color(T2, Parent(T2, x)) = RED THEN {w2} ELSE {}),
                rot |-> n1 + 2, far |-> TRUE, ws |-> {Right(T, Parent(T, x)), w, w2}]
      ELSE LET T3 == DelFarL(T1, x, w)
           IN  [t |-> T3, x |-> T3.root,
                red |-> r1 \cup (IF Color(T1, Parent(T1, x)) = RED THEN {w} ELSE {}),
                rot |-> n1 + 1, far |-> TRUE, ws |-> {Right(T, Parent(T, x)), w}]

\* The same, x a right child.
DelIterR(T, x) ==
  LET sibRed == Color(T, Left(T, Parent(T, x))) = RED
      T1 == IF sibRed THEN DelRedSibR(T, x, Left(T, Parent(T, x))) ELSE T
      r1 == IF sibRed THEN {Parent(T, x)} ELSE {}
      n1 == IF sibRed THEN 1 ELSE 0
      w == Left(T1, Parent(T1, x))
  IN  IF Color(T1, Right(T1, w)) = BLACK /\ Color(T1, Left(T1, w)) = BLACK
      THEN [t |-> SetColor(T1, w, RED), x |-> Parent(T1, x), red |-> r1 \cup {w},
            rot |-> n1, far |-> FALSE, ws |-> {Left(T, Parent(T, x)), w}]
      ELSE IF Color(T1, Left(T1, w)) = BLACK
      THEN LET T2 == DelNearR(T1, w)
               w2 == Left(T2, Parent(T2, x))
               T3 == DelFarR(T2, x, w2)
           IN  [t |-> T3, x |-> T3.root,
                red |-> r1 \cup {w}
                        \cup (IF Color(T2, Parent(T2, x)) = RED THEN {w2} ELSE {}),
                rot |-> n1 + 2, far |-> TRUE, ws |-> {Left(T, Parent(T, x)), w, w2}]
      ELSE LET T3 == DelFarR(T1, x, w)
           IN  [t |-> T3, x |-> T3.root,
                red |-> r1 \cup (IF Color(T1, Parent(T1, x)) = RED THEN {w} ELSE {}),
                rot |-> n1 + 1, far |-> TRUE, ws |-> {Left(T, Parent(T, x)), w}]

\* gc_rb_tree_delete_fixup as the structures seen at each test of the loop
\* condition, the nodes painted RED and the structure returned.
RECURSIVE DeleteFixupWalk(_, _, _, _)
DeleteFixupWalk(T, x, mid, red) ==
  IF ~(x # T.root /\ Color(T, x) = BLACK)
  THEN [mid |-> Append(mid, T), red |-> red, fin |-> SetColor(T, x, BLACK)]
  ELSE LET s == IF x = Left(T, Parent(T, x)) THEN DelIterL(T, x) ELSE DelIterR(T, x) IN
       DeleteFixupWalk(s.t, s.x, Append(mid, T), red \cup s.red)

\* gc_rb_tree_delete before the fixup: the structure with node unlinked, the
\* replacement point x, y_original_color, and the nodes painted RED (y takes
\* node's colour when node has two children).
DelUnlink(T, z) ==
  IF Left(T, z) = NIL
  THEN [t |-> Transplant(T, z, Right(T, z)), x |-> Right(T, z), c |-> Color(T, z),
        red |-> {}]
  ELSE IF Right(T, z) = NIL
  THEN [t |-> Transplant(T, z, Left(T, z)), x |-> Left(T, z), c |-> Color(T, z),
        red |-> {}]
  ELSE LET y == Minimum(T, Right(T, z)) IN
       [t |-> DelReplace(DelSplice(T, z, y), z, y), x |-> Right(T, y), c |-> Color(T, y),
        red |-> IF Color(T, z) = RED THEN {y} ELSE {}]

\* gc_rb_tree_delete of a node of the structure, up to the release of the node.
DeleteWalk(T, z) ==
  LET u == DelUnlink(T, z) IN
  IF u.c = BLACK THEN DeleteFixupWalk(u.t, u.x, <<>>, u.red)
  ELSE [mid |-> <<u.t>>, red |-> u.red, fin |-> u.t]

\* The number of parent links from x up to the root of T.
RECURSIVE DepthIn(_, _)
DepthIn(T, x) == IF x = T.root \/ x = NIL THEN 0 ELSE 1 + DepthIn(T, Parent(T, x))

\* The loop of gc_rb_tree_insert_fixup, one entry per iteration: the
\* rotations it made, the levels k moved up, whether the loop test then fails.
RECURSIVE InsertFixupTurns(_, _)
InsertFixupTurns(T, k) ==
  IF Color(T, Parent(T, k)) # RED THEN <<>>
  ELSE LET s == InsIter(T, k) IN
       <<[rot |-> s.rot, up |-> DepthIn(T, k) - DepthIn(s.t, s.k),
          last |-> Color(s.t, Parent(s.t, s.k)) # RED]>>
       \o InsertFixupTurns(s.t, s.k)

\* The loop of gc_rb_tree_delete_fixup, one entry per iteration: the
\* rotations it made, whether it ran the far-child-RED statements, whether w
\* was the sentinel, whether the loop test then fails.
RECURSIVE DeleteFixupTurns(_, _)
DeleteFixupTurns(T, x) ==
  IF ~(x # T.root /\ Color(T, x) = BLACK) THEN <<>>
  ELSE LET s == IF x = Left(T, Parent(T, x)) THEN DelIterL(T, x) ELSE DelIterR(T, x) IN
       <<[rot |-> s.rot, far |-> s.far, wnil |-> NIL \in s.ws,
          last |-> ~(s.x # s.t.root /\ Color(s.t, s.x) = BLACK)]>>
       \o DeleteFixupTurns(s.t, s.x)

\* The nodes of the structure T below and including x.
RECURSIVE SubIn(_, _)
SubIn(T, x) ==
  IF x = NIL THEN {} ELSE {x} \cup SubIn(T, Left(T, x)) \cup SubIn(T, Right(T, x))

\* Some RED node of T has a RED child.
RedRedIn(T) ==
  \E x \in SubIn(T, T.root) :
    Color(T, x) = RED /\ (Color(T, Left(T, x)) = RED \/ Color(T, Right(T, x)) = RED)

\* The numbers of BLACK nodes on the paths of T from x down to the sentinel.
RECURSIVE BlackCountsIn(_, _)
BlackCountsIn(T, x) ==
  IF x = NIL THEN {0}
  ELSE {c + (IF Color(T, x) = BLACK THEN 1 ELSE 0) :
          c \in BlackCountsIn(T, Left(T, x)) \cup BlackCountsIn(T, Right(T, x))}

\* GC_FREE(node): the address returns to the allocator.
FreeNodeAt(T, z) == [T EXCEPT !.n[z] = FreeNode]

\* ------------------------------------------------------------ validation
\* gc_rb_tree_validate_rec: [bh, err]; bh = -1 on error.
RECURSIVE ValidateRec(_, _)
ValidateRec(T, x) ==
  IF x = NIL THEN [bh |-> 1, err |-> 0]
  ELSE LET nd == T.n[x] IN
    IF nd.color = RED /\ (T.n[nd.left].color = RED \/ T.n[nd.right].color = RED)
    THEN [bh |-> -1, err |-> 2]
    ELSE IF nd.left # NIL /\ Cmp(T.n[nd.left].data, nd.data, 0) >= 0
    THEN [bh |-> -1, err |-> 1]
    ELSE IF nd.right # NIL /\ Cmp(T.n[nd.right].data, nd.data, 0) <= 0
    THEN [bh |-> -1, err |-> 1]
    ELSE LET l == ValidateRec(T, nd.left) IN
      IF l.bh < 0 THEN [bh |-> -1, err |-> l.err]
      ELSE LET r == ValidateRec(T, nd.right) IN
        IF r.bh < 0 THEN [bh |-> -1, err |-> r.err]
        ELSE IF l.bh # r.bh THEN [bh |-> -1, err |-> 3]
        ELSE [bh |-> l.bh + (IF nd.color = BLACK THEN 1 ELSE 0), err |-> 0]

Validate(T) ==
  IF T.n[NIL].color # BLACK THEN GC_RB_TREE_ERR_NIL_COLOR
  ELSE LET r == ValidateRec(T, T.root) IN
       IF r.bh < 0 /\ r.err = 0 THEN GC_RB_TREE_ERR_GENERIC ELSE r.err

\* ------------------------------------------------------------- traversal
\* Seeded fault: no test for the empty tree.
TreeMinNoGuard(T) == Minimum(T, T.root)

TreeMin(T) == IF T.root = NIL THEN NULLN ELSE Minimum(T, T.root)
TreeMax(T) == IF T.root = NIL THEN NULLN ELSE Maximum(T, T.root)

\* Seeded fault: the climb stops at the parent.
SuccClimbOnce(T, x, y) == IF y # NIL THEN y ELSE NULLN

RECURSIVE SuccClimb(_, _, _)
SuccClimb(T, x, y) ==
  IF y # NIL /\ x = T.n[y].right THEN SuccClimb(T, y, T.n[y].parent)
  ELSE IF y # NIL THEN y ELSE NULLN

Successor(T, x) ==
  IF T.n[x].right # NIL THEN Minimum(T, T.n[x].right)
  ELSE SuccClimb(T, x, T.n[x].parent)

\* Seeded fault: the climb stops at the parent.
PredClimbOnce(T, x, y) == IF y # NIL THEN y ELSE NULLN

RECURSIVE PredClimb(_, _, _)
PredClimb(T, x, y) ==
  IF y # NIL /\ x = T.n[y].left THEN PredClimb(T, y, T.n[y].parent)
  ELSE IF y # NIL THEN y ELSE NULLN

Predecessor(T, x) ==
  IF T.n[x].left # NIL THEN Maximum(T, T.n[x].left)
  ELSE PredClimb(T, x, T.n[x].parent)

\* RBTreeIterator: only the field current; the tree is the one tree.
IteratorBegin(T) == IF T.root # NIL THEN TreeMin(T) ELSE NULLN
IteratorRBegin(T) == IF T.root # NIL THEN TreeMax(T) ELSE NULLN
\* Seeded fault: an iterator that has run off the end starts again.
IteratorNextWrap(T, cur) == IF cur # NULLN THEN Successor(T, cur) ELSE IteratorBegin(T)

IteratorNext(T, cur) == IF cur # NULLN THEN Successor(T, cur) ELSE cur
IteratorPrev(T, cur) == IF cur # NULLN THEN Predecessor(T, cur) ELSE cur
IteratorValid(T, cur) == cur # NULLN /\ cur # NIL
IteratorData(T, cur) == IF cur = NULLN \/ cur = NIL THEN NULLP ELSE T.n[cur].data

\* -------------------------------------------------------- range iteration
HasFlag(flags, bit) == (flags \div bit) % 2 = 1

\* Seeded fault: an equal payload always qualifies.
RECURSIVE LowerBoundFromEqual(_, _, _, _, _, _)
LowerBoundFromEqual(T, key, inclusive, u, x, res) ==
  IF x = NIL THEN (IF res # NIL THEN res ELSE NULLN)
  ELSE LET c == Cmp(T.n[x].data, key, u) IN
       IF c >= 0
       THEN LowerBoundFromEqual(T, key, inclusive, u, T.n[x].left, x)
       ELSE LowerBoundFromEqual(T, key, inclusive, u, T.n[x].right, res)

RECURSIVE LowerBoundFrom(_, _, _, _, _, _)
LowerBoundFrom(T, key, inclusive, u, x, res) ==
  IF x = NIL THEN (IF res # NIL THEN res ELSE NULLN)
  ELSE LET c == Cmp(T.n[x].data, key, u) IN
       IF c > 0 \/ (inclusive /\ c = 0)
       THEN LowerBoundFrom(T, key, inclusive, u, T.n[x].left, x)
       ELSE LowerBoundFrom(T, key, inclusive, u, T.n[x].right, res)

\* Seeded fault: the low bound is ignored.
LowerBoundIsMin(T, key, inclusive, u) == TreeMin(T)

LowerBound(T, key, inclusive, u) == LowerBoundFrom(T, key, inclusive, u, T.root, NIL)

RECURSIVE UpperBoundFrom(_, _, _, _, _, _)
UpperBoundFrom(T, key, inclusive, u, x, res) ==
  IF x = NIL THEN (IF res # NIL THEN res ELSE NULLN)
  ELSE LET c == Cmp(T.n[x].data, key, u) IN
       IF c < 0 \/ (inclusive /\ c = 0)
       THEN UpperBoundFrom(T, key, inclusive, u, T.n[x].right, x)
       ELSE UpperBoundFrom(T, key, inclusive, u, T.n[x].left, res)

UpperBound(T, key, inclusive, u) == UpperBoundFrom(T, key, inclusive, u, T.root, NIL)

\* RBTreeRangeIterator {tree, current, low, high, flags, reverse}
RangeIt(cur, low, high, flags, reverse) ==
  [cur |-> cur, low |-> low, high |-> high, flags |-> flags, reverse |-> reverse]

\* Seeded fault: the high bound is always inclusive.
AboveHighInclusive(c, flags) == c > 0

AboveHigh(c, flags) == c > 0 \/ (~HasFlag(flags, GC_RB_RANGE_INCLUSIVE_HIGH) /\ c = 0)
BelowLow(c, flags) == c < 0 \/ (~HasFlag(flags, GC_RB_RANGE_INCLUSIVE_LOW) /\ c = 0)

RangeBegin(T, low, high, flags, u) ==
  IF T.root = NIL THEN RangeIt(NULLN, low, high, flags, FALSE)
  ELSE LET c == LowerBound(T, low, HasFlag(flags, GC_RB_RANGE_INCLUSIVE_LOW), u) IN
       IF c # NULLN /\ AboveHigh(Cmp(T.n[c].data, high, u), flags)
       THEN RangeIt(NULLN, low, high, flags, FALSE)
       ELSE RangeIt(c, low, high, flags, FALSE)

RangeRBegin(T, low, high, flags, u) ==
  IF T.root = NIL THEN RangeIt(NULLN, low, high, flags, TRUE)
  ELSE LET c == UpperBound(T, high, HasFlag(flags, GC_RB_RANGE_INCLUSIVE_HIGH), u) IN
       IF c # NULLN /\ BelowLow(Cmp(T.n[c].data, low, u), flags)
       THEN RangeIt(NULLN, low, high, flags, TRUE)
       ELSE RangeIt(c, low, high, flags, TRUE)

RangeNext(T, r, u) ==
  IF r.cur = NULLN THEN r
  ELSE LET c == IF r.reverse THEN Predecessor(T, r.cur) ELSE Successor(T, r.cur) IN
       IF c = NULLN THEN [r EXCEPT !.cur = NULLN]
       ELSE IF r.reverse
       THEN (IF BelowLow(Cmp(T.n[c].data, r.low, u), r.flags)
             THEN [r EXCEPT !.cur = NULLN] ELSE [r EXCEPT !.cur = c])
       ELSE (IF AboveHigh(Cmp(T.n[c].data, r.high, u), r.flags)
             THEN [r EXCEPT !.cur = NULLN] ELSE [r EXCEPT !.cur = c])

RangeValid(T, r) ==
  IF r.cur = NULLN \/ r.cur = NIL THEN FALSE
  ELSE LET data == T.n[r.cur].data IN
       IF data = NULLP THEN FALSE
       ELSE IF ~r.reverse
       THEN ~AboveHigh(IF r.high # NULLP THEN Cmp(data, r.high, 0) ELSE -1, r.flags)
       ELSE ~BelowLow(IF r.low # NULLP THEN Cmp(data, r.low, 0) ELSE 1, r.flags)

RangeData(T, r) == IF r.cur # NULLN /\ r.cur # NIL THEN T.n[r.cur].data ELSE NULLP

\* Whether a call hands NULL to tree->cmp (int_cmp and person_cmp dereference
\* both arguments). The first such comparison of a call is reached before u
\* is ever used, so the answers do not depend on u.
RangeBeginNullCmp(T, low, high, flags, u) ==
  /\ T.root # NIL
  /\ \/ low = NULLP
     \/ /\ high = NULLP
        /\ LowerBound(T, low, HasFlag(flags, GC_RB_RANGE_INCLUSIVE_LOW), u) # NULLN

RangeRBeginNullCmp(T, low, high, flags, u) ==
  /\ T.root # NIL
  /\ \/ high = NULLP
     \/ /\ low = NULLP
        /\ UpperBound(T, high, HasFlag(flags, GC_RB_RANGE_INCLUSIVE_HIGH), u) # NULLN

RangeNextNullCmp(T, r, u) ==
  /\ r.cur # NULLN
  /\ IF r.reverse THEN Predecessor(T, r.cur) # NULLN /\ r.low = NULLP
     ELSE Successor(T, r.cur) # NULLN /\ r.high = NULLP

\* --------------------------------------------------------- slice, filter
UNINIT == [key |-> 0, id |-> -2]      \* a malloc'ed slot never written
NullResult == [isnull |-> TRUE, buf |-> <<>>, count |-> 0, oob |-> FALSE]

\* Seeded fault: count slots are allocated and no terminator is written.
BufferNoTerminator(fill, count) ==
  [isnull |-> FALSE, buf |-> fill, count |-> count, oob |-> FALSE]

\* The buffer of count + 1 malloc'ed slots after the writes results[0..i-1]
\* = fill and results[i] = NULL; oob: a write fell outside the allocation.
Buffer(fill, count) ==
  [isnull |-> FALSE,
   buf |-> [j \in 1..(count + 1) |->
              IF j <= Len(fill) THEN fill[j]
              ELSE IF j = Len(fill) + 1 THEN NULLP ELSE UNINIT],
   count |-> count,
   oob |-> Len(fill) + 1 > count + 1]

\* First pass of gc_rb_tree_slice: count the elements in range.
RECURSIVE SliceCount(_, _, _)
SliceCount(T, r, u) ==
  IF RangeValid(T, r) THEN 1 + SliceCount(T, RangeNext(T, r, u), u) ELSE 0

\* Second pass: the values stored in results[0], results[1], ...
RECURSIVE SliceFill(_, _, _)
SliceFill(T, r, u) ==
  IF RangeValid(T, r) THEN <<RangeData(T, r)>> \o SliceFill(T, RangeNext(T, r, u), u)
  ELSE <<>>

\* Seeded fault: the direction flag is ignored.
SliceStartAscending(T, low, high, flags, u) == RangeBegin(T, low, high, flags, u)

SliceStart(T, low, high, flags, u) ==
  IF HasFlag(flags, GC_RB_TREE_SLICE_DESCENDING)
  THEN RangeRBegin(T, low, high, flags, u)
  ELSE RangeBegin(T, low, high, flags, u)

TreeSlice(T, low, high, flags, u) ==
  IF T.root = NIL THEN NullResult
  ELSE LET r == SliceStart(T, low, high, flags, u)
           count == SliceCount(T, r, u)
       IN  IF count = 0 THEN NullResult
           ELSE Buffer(SliceFill(T, r, u), count)

RECURSIVE WalkNullCmp(_, _, _)
WalkNullCmp(T, r, u) ==
  /\ RangeValid(T, r)
  /\ (RangeNextNullCmp(T, r, u) \/ WalkNullCmp(T, RangeNext(T, r, u), u))

SliceNullCmp(T, low, high, flags, u) ==
  \/ IF HasFlag(flags, GC_RB_TREE_SLICE_DESCENDING)
     THEN RangeRBeginNullCmp(T, low, high, flags, u)
     ELSE RangeBeginNullCmp(T, low, high, flags, u)
  \/ T.root # NIL /\ WalkNullCmp(T, SliceStart(T, low, high, flags, u), u)

\* A predicate call pred(data, user_data): less_than_20 of the tests reads the
\* limit through user_data; "parity" and "always" are other pure predicates.
NULLPRED == [f |-> "NULL", ud |-> 0]
PredEval(pr, data) ==
  CASE pr.f = "less_than" -> data.key < pr.ud
    [] pr.f = "parity" -> data.key % 2 = pr.ud
    [] OTHER -> TRUE

\* Seeded fault: the counting pass does not ask the predicate.
RECURSIVE FilterCountAll(_, _, _)
FilterCountAll(T, cur, pr) ==
  IF IteratorValid(T, cur) THEN 1 + FilterCountAll(T, IteratorNext(T, cur), pr) ELSE 0

RECURSIVE FilterCount(_, _, _)
FilterCount(T, cur, pr) ==
  IF IteratorValid(T, cur)
  THEN (IF PredEval(pr, IteratorData(T, cur)) THEN 1 ELSE 0)
       + FilterCount(T, IteratorNext(T, cur), pr)
  ELSE 0

RECURSIVE FilterFill(_, _, _)
FilterFill(T, cur, pr) ==
  IF IteratorValid(T, cur)
  THEN (IF PredEval(pr, IteratorData(T, cur)) THEN <<IteratorData(T, cur)>> ELSE <<>>)
       \o FilterFill(T, IteratorNext(T, cur), pr)
  ELSE <<>>

TreeFilter(T, pr) ==
  IF T.root = NIL \/ pr = NULLPRED THEN NullResult
  ELSE LET count == FilterCount(T, IteratorBegin(T), pr) IN
       IF count = 0 THEN NullResult
       ELSE Buffer(FilterFill(T, IteratorBegin(T), pr), count)

\* ------------------------------------------------- filter_with_da, gc_da
\* VoidPtrArray {items, count, capacity}; items holds capacity slots, the
\* ones never written are UNINIT. results = {0}: no allocation yet.
DaZero == [items |-> <<>>, count |-> 0, capacity |-> 0]

\* The while loop of gc_da_reserve: capacity doubles until it suffices.
RECURSIVE DaGrow(_, _)
DaGrow(capacity, expected) ==
  IF expected > capacity THEN DaGrow(capacity * 2, expected) ELSE capacity

\* A reserve whose new allocation does not carry the old slots over.
DaReserveFresh(da, expected) ==
  IF expected > da.capacity
  THEN LET cap == DaGrow(IF da.capacity = 0 THEN GC_INIT_CAP ELSE da.capacity, expected)
       IN  [da EXCEPT !.capacity = cap, !.items = [j \in 1..cap |-> UNINIT]]
  ELSE da

\* gc_da_reserve: GC_REALLOC keeps the old slots and adds unwritten ones.
DaReserve(da, expected) ==
  IF expected > da.capacity
  THEN LET cap == DaGrow(IF da.capacity = 0 THEN GC_INIT_CAP ELSE da.capacity, expected)
       IN  [da EXCEPT !.capacity = cap,
                      !.items = [j \in 1..cap |-> IF j <= Len(da.items) THEN da.items[j] ELSE UNINIT]]
  ELSE da

\* (da)->items[(da)->count++] = (item)
DaStore(da, item) == [da EXCEPT !.items[da.count + 1] = item, !.count = da.count + 1]

\* gc_da_append
DaAppend(da, item) == DaStore(DaReserve(da, da.count + 1), item)

\* The single pass of gc_rb_tree_filter_with_da.
RECURSIVE DaCollect(_, _, _, _)
DaCollect(T, cur, pr, da) ==
  IF IteratorValid(T, cur)
  THEN DaCollect(T, IteratorNext(T, cur), pr,
                 IF PredEval(pr, IteratorData(T, cur))
                 THEN DaAppend(da, IteratorData(T, cur)) ELSE da)
  ELSE da

\* What the caller receives: results.items, an allocation of capacity slots,
\* and *out_count.
DaResult(da) ==
  IF da.count = 0 THEN NullResult
  ELSE [isnull |-> FALSE, buf |-> da.items, count |-> da.count, oob |-> FALSE]

TreeFilterWithDa(T, pr) ==
  IF T.root = NIL \/ pr = NULLPRED THEN NullResult
  ELSE DaResult(DaCollect(T, IteratorBegin(T), pr, DaZero))

\* --------------------------------------------------------------- teardown
\* mem: tree / nil "live" or "freed"; nilp the value of tree->nil (NIL, or
\* NULLN once clean_up has reset it); dtor the bag of payloads handed to a
\* destructor so far; bad the memory errors committed; cleared whether
\* gc_rb_tree_free_all_nodes has emptied the tree before.
NewMem ==
  [tree |-> "live", nil |-> "live", nilp |-> NIL, dtor |-> EmptyBag, bad |-> {},
   cleared |-> FALSE]

\* The tree, its nodes and the allocator's books, as the teardown code sees them.
Whole == [root |-> root, n |-> node, alive |-> allocd, m |-> mem]

Blame(S, what) == [S EXCEPT !.m.bad = @ \cup {what}]

\* Seeded fault: the destructor is called whether supplied or not.
DestructAlways(S, x, fd) == [S EXCEPT !.m.dtor = @ (+) SetToBag({S.n[x].data})]

\* free_data(node->data), when a destructor is supplied
Destruct(S, x, fd) ==
  IF fd THEN [S EXCEPT !.m.dtor = @ (+) SetToBag({S.n[x].data})] ELSE S

\* GC_FREE(node)
GcFreeNode(S, x) ==
  IF x \notin S.alive THEN Blame(S, "double_free")
  ELSE [S EXCEPT !.alive = @ \ {x}, !.n[x] = FreeNode]

\* if (free_data) free_data(node->data); GC_FREE(node);
FreeOne(S, x, fd) == GcFreeNode(Destruct(S, x, fd), x)

\* gc_rb_tree_free_nodes: post-order; a node is read (left, then right after
\* the left subtree is gone, then data) before it is released.
RECURSIVE FreeNodes(_, _, _, _)
FreeRight(S, x, nilp, fd) ==
  IF x \notin S.alive THEN Blame(S, "use_after_free")
  ELSE FreeOne(FreeNodes(S, S.n[x].right, nilp, fd), x, fd)

FreeNodes(S, x, nilp, fd) ==
  IF x = nilp THEN S
  ELSE IF x \notin S.alive THEN Blame(S, "use_after_free")
  ELSE FreeRight(FreeNodes(S, S.n[x].left, nilp, fd), x, nilp, fd)

\* Seeded fault: the root is left pointing at the released nodes.
FreeAllNodesKeepRoot(S, fd) ==
  IF S.root = S.m.nilp THEN S ELSE FreeNodes(S, S.root, S.m.nilp, fd)

\* gc_rb_tree_free_all_nodes
FreeAllNodes(S, fd) ==
  IF S.root = S.m.nilp THEN S
  ELSE [FreeNodes(S, S.root, S.m.nilp, fd) EXCEPT !.root = S.m.nilp]

\* GC_FREE(tree->nil); free(NULL) does nothing
GcFreeNil(S) ==
  IF S.m.nilp = NULLN THEN S
  ELSE IF S.m.nil = "freed" THEN Blame(S, "double_free")
  ELSE [S EXCEPT !.m.nil = "freed"]

\* Seeded fault: tree->nil is released but not reset to NULL.
DropNilKeepPointer(S) == GcFreeNil(S)

\* if (tree->nil) { GC_FREE(tree->nil); tree->nil = NULL; }
DropNil(S) ==
  IF S.m.nilp # NULLN THEN [GcFreeNil(S) EXCEPT !.m.nilp = NULLN] ELSE S

\* gc_rb_tree_clean_up
CleanUp(S, fd) == DropNil(FreeAllNodes(S, fd))

\* GC_FREE(tree)
GcFreeTree(S) ==
  IF S.m.tree = "freed" THEN Blame(S, "double_free")
  ELSE [S EXCEPT !.m.tree = "freed"]

\* gc_rb_tree_destroy
Destroy(S, fd) == GcFreeTree(GcFreeNil(CleanUp(S, fd)))

\* gc_rb_tree_delete, whole: the early return, the relinking, the release
Relinked(S, z) ==
  [S EXCEPT !.root = TreeDelete([root |-> S.root, n |-> S.n], z).root,
            !.n = TreeDelete([root |-> S.root, n |-> S.n], z).n]

\* Seeded fault: no early return for the sentinel.
DeleteWithNoGuard(S, z, fd) == FreeOne(Relinked(S, z), z, fd)

DeleteWith(S, z, fd) ==
  IF z = S.m.nilp THEN S ELSE FreeOne(Relinked(S, z), z, fd)

\* ------------------------------------------------------------- hash table
\* GC_HashTable {items, count, capacity}: items[0..capacity-1] of GC_HashEntry
\* {key, value, state}. Keys are ints compared by value (gc_eq_int32), NULLK
\* the NULL key / value pointer. hang: a probe loop that can never exit was
\* entered, so the call does not return.
NULLK == -1
EmptyEntry == [key |-> NULLK, value |-> NULLK, state |-> GC_SLOT_EMPTY]

\* The caller's hash_func (a gc_hash_fn): the key itself.
HashFn(k) == k

\* gc_hash_normalize_capacity
NormalizeCapacity(cap) == IF cap < GC_HASH_MIN_CAPACITY THEN GC_HASH_MIN_CAPACITY ELSE cap

\* gc_hash_init: calloc gives GC_SLOT_EMPTY entries
HashInit(cap) ==
  [items |-> [i \in 0..(NormalizeCapacity(cap) - 1) |-> EmptyEntry],
   count |-> 0, capacity |-> NormalizeCapacity(cap), hang |-> FALSE]

\* gc_hash_load_factor(ht) >= GC_HASH_MAX_LOAD_FACTOR (0.60), in integers
LoadAtLeastMax(H) == H.capacity # 0 /\ H.count * 5 >= H.capacity * 3
\* gc_hash_load_factor(ht) < 0.1, in integers
LoadBelowTenth(H) == H.capacity = 0 \/ H.count * 10 < H.capacity

Hang(H) == [H EXCEPT !.hang = TRUE]

\* e->key = key; e->value = value; e->state = GC_SLOT_OCCUPIED; ht->count++;
HashPlace(H, at, key, value) ==
  [H EXCEPT !.items[at] = [key |-> key, value |-> value, state |-> GC_SLOT_OCCUPIED],
            !.count = @ + 1]

\* The for (;;) of gc_hash_insert from slot h, n slots probed so far. After
\* capacity probes without an exit every slot has been seen and none exits.
RECURSIVE HashInsertAt(_, _, _, _, _, _)
HashInsertAt(H, key, value, h, ft, n) ==
  IF n >= H.capacity THEN Hang(H)
  ELSE IF H.items[h].state = GC_SLOT_EMPTY
  THEN HashPlace(H, IF ft >= 0 THEN ft ELSE h, key, value)
  ELSE IF H.items[h].state = GC_SLOT_TOMBSTONE /\ ft < 0
  THEN HashInsertAt(H, key, value, (h + 1) % H.capacity, h, n + 1)
  ELSE IF H.items[h].state = GC_SLOT_OCCUPIED /\ H.items[h].key = key
  THEN [H EXCEPT !.items[h].value = value]
  ELSE HashInsertAt(H, key, value, (h + 1) % H.capacity, ft, n + 1)

RECURSIVE HashInsert(_, _, _)
RECURSIVE HashResizeCopy(_, _, _)

\* gc_hash_resize: a fresh table, then every occupied old entry re-inserted
HashResizeCopy(H, old, i) ==
  IF i >= old.capacity \/ H.hang THEN H
  ELSE IF old.items[i].state = GC_SLOT_OCCUPIED
  THEN HashResizeCopy(HashInsert(H, old.items[i].key, old.items[i].value), old, i + 1)
  ELSE HashResizeCopy(H, old, i + 1)

HashResize(H, cap) == HashResizeCopy(HashInit(cap), H, 0)

\* gc_hash_ensure_growth
HashEnsureGrowth(H) == IF LoadAtLeastMax(H) THEN HashResize(H, H.capacity * 2) ELSE H

\* gc_hash_ensure_shrink
HashEnsureShrink(H) ==
  IF LoadBelowTenth(H) /\ H.capacity > GC_HASH_MIN_CAPACITY
  THEN HashResize(H, NormalizeCapacity(H.capacity \div 2))
  ELSE H

HashProbeFrom(H, key) == HashFn(key) % H.capacity

HashInsertGrown(H, key, value) == HashInsertAt(H, key, value, HashProbeFrom(H, key), -1, 0)

\* gc_hash_insert
HashInsert(H, key, value) ==
  HashInsertGrown(
    HashEnsureGrowth(IF H.capacity = 0 THEN HashInit(GC_HASH_MIN_CAPACITY) ELSE H),
    key, value)

\* gc_hash_find: the slot of the entry, NULLK for NULL, HANGS when the loop
\* cannot exit
HANGS == -2
RECURSIVE HashFindAt(_, _, _, _)
HashFindAt(H, key, h, n) ==
  IF n >= H.capacity THEN HANGS
  ELSE IF H.items[h].state = GC_SLOT_EMPTY THEN NULLK
  ELSE IF H.items[h].state = GC_SLOT_OCCUPIED /\ H.items[h].key = key THEN h
  ELSE HashFindAt(H, key, (h + 1) % H.capacity, n + 1)

HashFind(H, key) ==
  IF H.capacity = 0 THEN NULLK ELSE HashFindAt(H, key, HashProbeFrom(H, key), 0)

\* e->key = NULL; e->value = NULL; e->state = GC_SLOT_TOMBSTONE; ht->count--;
HashBury(H, h) ==
  [H EXCEPT !.items[h] = [key |-> NULLK, value |-> NULLK, state |-> GC_SLOT_TOMBSTONE],
            !.count = @ - 1]

\* gc_hash_remove: [t, ret]
RECURSIVE HashRemoveAt(_, _, _, _)
HashRemoveAt(H, key, h, n) ==
  IF n >= H.capacity THEN [t |-> Hang(H), ret |-> FALSE]
  ELSE IF H.items[h].state = GC_SLOT_EMPTY THEN [t |-> H, ret |-> FALSE]
  ELSE IF H.items[h].state = GC_SLOT_OCCUPIED /\ H.items[h].key = key
  THEN [t |-> HashEnsureShrink(HashBury(H, h)), ret |-> TRUE]
  ELSE HashRemoveAt(H, key, (h + 1) % H.capacity, n + 1)

HashRemove(H, key) ==
  IF H.capacity = 0 THEN [t |-> H, ret |-> FALSE]
  ELSE HashRemoveAt(H, key, HashProbeFrom(H, key), 0)

\* ------------------------------------------ generated integer-key tables
\* A uint32_t is four bytes, least significant first.
Bytes(n) == <<n % 256, (n \div 256) % 256, (n \div 65536) % 256, (n \div 16777216) % 256>>

RECURSIVE XorBits(_, _, _)
XorBits(a, b, n) ==
  IF n = 0 THEN 0
  ELSE ((a + b) % 2) + 2 * XorBits(a \div 2, b \div 2, n - 1)

\* v ^= v >> s, for 8 <= s
XorShift(v, s) ==
  LET w == Bytes((v[4] * 65536 + v[3] * 256 + v[2]) \div (2 ^ (s - 8)))
  IN  <<XorBits(v[1], w[1], 8), XorBits(v[2], w[2], 8),
        XorBits(v[3], w[3], 8), XorBits(v[4], w[4], 8)>>

\* v *= c, modulo 2^32
MulRaw(v, c, k) ==
  IF k = 1 THEN v[1] * c[1]
  ELSE IF k = 2 THEN v[1] * c[2] + v[2] * c[1]
  ELSE IF k = 3 THEN v[1] * c[3] + v[2] * c[2] + v[3] * c[1]
  ELSE v[1] * c[4] + v[2] * c[3] + v[3] * c[2] + v[4] * c[1]

RECURSIVE MulSum(_, _, _)
MulSum(v, c, k) == MulRaw(v, c, k) + (IF k = 1 THEN 0 ELSE MulSum(v, c, k - 1) \div 256)

Mul32(v, c) ==
  <<MulSum(v, c, 1) % 256, MulSum(v, c, 2) % 256, MulSum(v, c, 3) % 256, MulSum(v, c, 4) % 256>>

\* gc_hash_int32
HashInt32(key) ==
  LET v1 == XorShift(Bytes(key), 17)
      v2 == Mul32(v1, <<187, 212, 90, 237>>)      \* 0xed5ad4bb
      v3 == XorShift(v2, 11)
      v4 == Mul32(v3, <<81, 27, 76, 172>>)        \* 0xac4c1b51
      v5 == XorShift(v4, 15)
      v6 == Mul32(v5, <<171, 139, 132, 49>>)      \* 0x31848bab
  IN  XorShift(v6, 14)

\* h % capacity for a four-byte h
Mod32(v, m) == ((((((v[4] % m) * 256 + v[3]) % m) * 256 + v[2]) % m) * 256 + v[1]) % m

\* The home slots in a table of GC_HASH_MIN_CAPACITY slots.
IntHome == [k \in 0..MaxIKey |-> Mod32(HashInt32(k), GC_HASH_MIN_CAPACITY)]

\* gc_hash_NAME_init: calloc gives key 0, value 0, GC_SLOT_EMPTY
IntInit(cap) ==
  [items |-> [i \in 0..(NormalizeCapacity(cap) - 1) |->
                [key |-> 0, value |-> 0, state |-> GC_SLOT_EMPTY]],
   count |-> 0, capacity |-> NormalizeCapacity(cap), hang |-> FALSE]

\* The for (;;) of gc_hash_NAME_set (GC_HASH_DEFINE_INT, and word for word
\* GC_HASH_DEFINE_INLINE) from slot h, n slots probed so far.
RECURSIVE IntSetAt(_, _, _, _, _, _)
IntSetAt(H, key, val, h, ft, n) ==
  IF n >= H.capacity THEN Hang(H)
  ELSE IF H.items[h].state = GC_SLOT_EMPTY
  THEN HashPlace(H, IF ft >= 0 THEN ft ELSE h, key, val)
  ELSE IF H.items[h].state = GC_SLOT_TOMBSTONE /\ ft < 0
  THEN IntSetAt(H, key, val, (h + 1) % H.capacity, h, n + 1)
  ELSE IF H.items[h].state = GC_SLOT_OCCUPIED /\ H.items[h].key = key
  THEN [H EXCEPT !.items[h].value = val]
  ELSE IntSetAt(H, key, val, (h + 1) % H.capacity, ft, n + 1)

\* gc_hash_NAME_set
IntSet(H, key, val) ==
  LET G == IF H.capacity = 0 THEN IntInit(16) ELSE H
  IN  IntSetAt(G, key, val, Mod32(HashInt32(key), G.capacity), -1, 0)

\* gc_hash_NAME_get: the return value and *out, or hangs when the loop
\* cannot exit
IntGot(found, val, hangs) == [found |-> found, val |-> val, hangs |-> hangs]

RECURSIVE IntGetAt(_, _, _, _)
IntGetAt(H, key, h, n) ==
  IF n >= H.capacity THEN IntGot(FALSE, 0, TRUE)
  ELSE IF H.items[h].state = GC_SLOT_EMPTY THEN IntGot(FALSE, 0, FALSE)
  ELSE IF H.items[h].state = GC_SLOT_OCCUPIED /\ H.items[h].key = key
  THEN IntGot(TRUE, H.items[h].value, FALSE)
  ELSE IntGetAt(H, key, (h + 1) % H.capacity, n + 1)

IntGet(H, key) ==
  IF H.capacity = 0 THEN IntGot(FALSE, 0, FALSE)
  ELSE IntGetAt(H, key, Mod32(HashInt32(key), H.capacity), 0)

\* gc_hash_NAME_remove: [t, ret]
RECURSIVE IntRemoveAt(_, _, _, _)
IntRemoveAt(H, key, h, n) ==
  IF n >= H.capacity THEN [t |-> Hang(H), ret |-> FALSE]
  ELSE IF H.items[h].state = GC_SLOT_EMPTY THEN [t |-> H, ret |-> FALSE]
  ELSE IF H.items[h].state = GC_SLOT_OCCUPIED /\ H.items[h].key = key
  THEN [t |-> [H EXCEPT !.items[h].state = GC_SLOT_TOMBSTONE, !.count = @ - 1],
        ret |-> TRUE]
  ELSE IntRemoveAt(H, key, (h + 1) % H.capacity, n + 1)

IntRemove(H, key) ==
  IF H.capacity = 0 THEN [t |-> H, ret |-> FALSE]
  ELSE IntRemoveAt(H, key, Mod32(HashInt32(key), H.capacity), 0)

\* ---------------------------------------------------------------- actions
Keys(S) == {p.key : p \in S}
TRAP == 2                          \* the comparison against NULL faults
Outcomes == {-1, 0, 1, TRAP}       \* or it yields some int
NoIter == [kind |-> "none", cur |-> NULLN, hist |-> <<>>]
NoRange == [open |-> FALSE, r |-> RangeIt(NULLN, NULLP, NULLP, 0, FALSE), hist |-> <<>>]
Bounds == {Probe(k) : k \in 0..(MaxQKey + 1)} \cup {NULLP}
RangeFlags == 0..3
SliceFlags == RangeFlags \cup {f + GC_RB_TREE_SLICE_DESCENDING : f \in RangeFlags}
Preds == {[f |-> "always", ud |-> 0], NULLPRED}
           \cup {[f |-> "less_than", ud |-> l] : l \in 1..(MaxQKey + 1)}
           \cup {[f |-> "parity", ud |-> b] : b \in 0..1}

\* The caller's table after gc_hash_init, with what the caller knows: shadow
\* the value last inserted per key (0: none, or removed since), fresh the
\* number of keys 0, 1, 2, ... the caller has used so far.
NewHash ==
  [tb |-> HashInit(GC_HASH_MIN_CAPACITY), shadow |-> [k \in 0..MaxHKey |-> 0], fresh |-> 0]

\* gc_rb_tree_create
Init ==
  /\ root = NIL
  /\ node = [a \in {NIL} \cup Addrs |-> FreeNode]
  /\ allocd = {}
  /\ live = {}
  /\ out = [op |-> "create"]
  /\ it = NoIter
  /\ rit = NoRange
  /\ ub = "no"
  /\ mem = NewMem
  /\ ht = NewHash
  /\ born = <<>>

\* gc_rb_tree_insert(tree, p). Iterators made before a mutation are invalid
\* afterwards (a documented precondition): the caller drops them.
DoInsert(p) ==
  /\ ub # "trap"
  /\ p \notin live
  /\ AddrOf(p) \notin allocd
  /\ LET z == AddrOf(p)
         T == TreeInsert(Tree, z, p)
     IN  /\ root' = T.root
         /\ node' = T.n
         /\ allocd' = allocd \cup {z}
  /\ live' = live \cup {p}
  /\ out' = [op |-> "insert"]
  /\ it' = NoIter
  /\ rit' = NoRange
  /\ ub' = "no"
  /\ UNCHANGED auxVars

\* gc_rb_tree_delete(tree, gc_rb_tree_search(tree, &k), free_data)
DoDelete(k) ==
  LET z == TreeSearch(Tree, Probe(k)) IN
  /\ ub # "trap"
  /\ z # NIL
  /\ LET T == FreeNodeAt(TreeDelete(Tree, z), z) IN
       /\ root' = T.root
       /\ node' = T.n
  /\ allocd' = allocd \ {z}
  /\ live' = live \ {node[z].data}
  /\ out' = [op |-> "delete"]
  /\ it' = NoIter
  /\ rit' = NoRange
  /\ ub' = "no"
  /\ UNCHANGED auxVars

\* Insert of a payload whose key is not in the tree.
Insert == \E k \in 1..MaxKey : k \notin Keys(live) /\ DoInsert(Obj(k, 1))

Delete == \E k \in 1..MaxKey : DoDelete(k)

\* What a caller stepping through the fixup of walk w sees: whether the
\* structure returned is f, the loop iterations, whether some structure before
\* the last statement has a RED node with a RED child (mid), whether the one
\* at the end of the loop still has (late), whether the sentinel was painted
\* RED or seen not BLACK.
Seen(w, f) ==
  [same |-> w.fin = f,
   iters |-> Len(w.mid) - 1,
   mid |-> \E i \in 1..Len(w.mid) : RedRedIn(w.mid[i]),
   late |-> RedRedIn(w.mid[Len(w.mid)]),
   nil |-> NIL \in w.red \/ \E i \in 1..Len(w.mid) : Color(w.mid[i], NIL) # BLACK]

\* gc_rb_tree_insert of an absent key, observed step by step. top: the fixup
\* painted the node that was the root RED.
InsertStep ==
  \E k \in 1..MaxKey :
    LET p == Obj(k, 1)
        w == InsertWalk(Tree, AddrOf(p), p)
        T == TreeInsert(Tree, AddrOf(p), p)
        s == Seen(w, T)
    IN  /\ k \notin Keys(live)
        /\ ub # "trap"
        /\ p \notin live
        /\ AddrOf(p) \notin allocd
        /\ root' = T.root
        /\ node' = T.n
        /\ allocd' = allocd \cup {AddrOf(p)}
        /\ live' = live \cup {p}
        /\ out' = [op |-> "insert", same |-> s.same, iters |-> s.iters, mid |-> s.mid,
                   late |-> s.late,
                   nil |-> s.nil, top |-> root \in w.red]
        /\ it' = NoIter
        /\ rit' = NoRange
        /\ ub' = "no"
        /\ UNCHANGED auxVars

\* gc_rb_tree_delete of a node returned by search, observed step by step.
\* yc: y_original_color; short: the structure handed to the fixup has paths
\* with different numbers of BLACK nodes; lone: the node was the BLACK root
\* with a single child, which was RED.
DeleteStep ==
  \E k \in 1..MaxKey :
    LET z == TreeSearch(Tree, Probe(k))
        u == DelUnlink(Tree, z)
        T == TreeDelete(Tree, z)
        s == Seen(DeleteWalk(Tree, z), T)
    IN  /\ ub # "trap"
        /\ z # NIL
        /\ root' = T.root
        /\ node' = FreeNodeAt(T, z).n
        /\ allocd' = allocd \ {z}
        /\ live' = live \ {node[z].data}
        /\ out' = [op |-> "delete", same |-> s.same, iters |-> s.iters, mid |-> s.mid,
                   late |-> s.late,
                   nil |-> s.nil, yc |-> u.c,
                   short |-> Cardinality(BlackCountsIn(u.t, u.t.root)) # 1,
                   lone |-> /\ z = root
                            /\ node[z].color = BLACK
                            /\ {node[z].left, node[z].right} \ {NIL} # {}
                            /\ \A c \in {node[z].left, node[z].right} \ {NIL} :
                                 node[c].color = RED
                            /\ NIL \in {node[z].left, node[z].right}]
        /\ it' = NoIter
        /\ rit' = NoRange
        /\ ub' = "no"
        /\ UNCHANGED auxVars

\* gc_rb_tree_insert of an absent key, the iterations of its fixup loop
\* recorded.
DoInsertTurns(k) ==
    LET p == Obj(k, 1)
        T == TreeInsert(Tree, AddrOf(p), p)
    IN  /\ k \notin Keys(live)
        /\ ub # "trap"
        /\ AddrOf(p) \notin allocd
        /\ root' = T.root
        /\ node' = T.n
        /\ allocd' = allocd \cup {AddrOf(p)}
        /\ live' = live \cup {p}
        /\ out' = [op |-> "insert",
                   turns |-> InsertFixupTurns(
                               InsertAt(AllocNode(Tree, AddrOf(p), p), AddrOf(p), p),
                               AddrOf(p))]
        /\ it' = NoIter
        /\ rit' = NoRange
        /\ ub' = "no"
        /\ UNCHANGED auxVars

\* gc_rb_tree_delete of a node returned by search, the iterations of its
\* fixup loop recorded (none when y_original_color is RED).
DoDeleteTurns(k) ==
    LET z == TreeSearch(Tree, Probe(k))
        u == DelUnlink(Tree, z)
        T == TreeDelete(Tree, z)
    IN  /\ ub # "trap"
        /\ z # NIL
        /\ root' = T.root
        /\ node' = FreeNodeAt(T, z).n
        /\ allocd' = allocd \ {z}
        /\ live' = live \ {node[z].data}
        /\ out' = [op |-> "delete",
                   turns |-> IF u.c = BLACK THEN DeleteFixupTurns(u.t, u.x) ELSE <<>>]
        /\ it' = NoIter
        /\ rit' = NoRange
        /\ ub' = "no"
        /\ UNCHANGED auxVars

InsertTurns == \E k \in 1..MaxTurnKey : DoInsertTurns(k)
DeleteTurns == \E k \in 1..MaxTurnKey : DoDeleteTurns(k)

\* A caller that inserts only keys above every key in the tree, and deletes
\* any: enough nodes for a delete walk of more than one iteration.
InsertRising ==
  \E k \in 1..MaxDeepKey : (\A q \in Keys(live) : q < k) /\ DoInsertTurns(k)
DeleteDeep == \E k \in 1..MaxDeepKey : DoDeleteTurns(k)

\* Insert of any payload object, equal keys included.
InsertDup == \E k \in 1..MaxDupKey, i \in 1..MaxCopies : DoInsert(Obj(k, i))

\* Insert in the specifications that exercise the queries.
InsertQ == \E k \in 1..MaxQKey : k \notin Keys(live) /\ DoInsert(Obj(k, 1))

\* it = gc_rb_tree_iterator_begin(tree)
IterBegin ==
  /\ ub # "trap"
  /\ LET c == IteratorBegin(Tree) IN
     it' = [kind |-> "fwd", cur |-> c,
            hist |-> IF IteratorValid(Tree, c) THEN <<IteratorData(Tree, c)>> ELSE <<>>]
  /\ out' = [op |-> "iterator_begin"]
  /\ UNCHANGED <<treeVars, rit, ub, auxVars>>

\* it = gc_rb_tree_iterator_rbegin(tree)
IterRBegin ==
  /\ ub # "trap"
  /\ LET c == IteratorRBegin(Tree) IN
     it' = [kind |-> "rev", cur |-> c,
            hist |-> IF IteratorValid(Tree, c) THEN <<IteratorData(Tree, c)>> ELSE <<>>]
  /\ out' = [op |-> "iterator_rbegin"]
  /\ UNCHANGED <<treeVars, rit, ub, auxVars>>

\* gc_rb_tree_iterator_next(&it). hist is kept while the iterator is only
\* moved in the direction it was begun in.
IterNext ==
  /\ ub # "trap"
  /\ it.kind # "none"
  /\ LET c == IteratorNext(Tree, it.cur) IN
     it' = IF it.kind = "fwd"
           THEN [it EXCEPT !.cur = c,
                           !.hist = IF IteratorValid(Tree, c) /\ c # it.cur
                                    THEN Append(@, IteratorData(Tree, c)) ELSE @]
           ELSE [kind |-> "mixed", cur |-> c, hist |-> <<>>]
  /\ out' = [op |-> "iterator_next"]
  /\ UNCHANGED <<treeVars, rit, ub, auxVars>>

\* gc_rb_tree_iterator_prev(&it)
IterPrev ==
  /\ ub # "trap"
  /\ it.kind # "none"
  /\ LET c == IteratorPrev(Tree, it.cur) IN
     it' = IF it.kind = "rev"
           THEN [it EXCEPT !.cur = c,
                           !.hist = IF IteratorValid(Tree, c) /\ c # it.cur
                                    THEN Append(@, IteratorData(Tree, c)) ELSE @]
           ELSE [kind |-> "mixed", cur |-> c, hist |-> <<>>]
  /\ out' = [op |-> "iterator_prev"]
  /\ UNCHANGED <<treeVars, rit, ub, auxVars>>

\* A call that hands NULL to the comparator ends in one of Outcomes; any
\* other call has the one outcome 0 (u unused).
OutcomesOf(nullcmp) == IF nullcmp THEN Outcomes ELSE {0}
UbOf(nullcmp, o) == IF ~nullcmp THEN "no" ELSE IF o = TRAP THEN "trap" ELSE "garbage"

\* The payloads a FOREACH loop over r has seen so far.
Yield(T, r, hist) == IF RangeValid(T, r) THEN Append(hist, RangeData(T, r)) ELSE hist

Opened(T, r) == [open |-> TRUE, r |-> r, hist |-> Yield(T, r, <<>>)]
Advanced(T, ri, r) ==
  [ri EXCEPT !.r = r, !.hist = IF r.cur # ri.r.cur THEN Yield(T, r, @) ELSE @]

\* rit = gc_rb_tree_iterator_range_begin(tree, low, high, flags); the caller
\* holds one range iterator at a time.
RangeBeginCall ==
  /\ ub # "trap"
  /\ ~rit.open
  /\ \E low \in Bounds, high \in Bounds, flags \in RangeFlags :
    \E o \in OutcomesOf(RangeBeginNullCmp(Tree, low, high, flags, 0)) :
      /\ ub' = UbOf(RangeBeginNullCmp(Tree, low, high, flags, 0), o)
      /\ rit' = IF o = TRAP THEN NoRange
                ELSE Opened(Tree, RangeBegin(Tree, low, high, flags, o))
      /\ out' = [op |-> "range_begin"]
      /\ UNCHANGED <<treeVars, it, auxVars>>

\* rit = gc_rb_tree_iterator_range_rbegin(tree, low, high, flags)
RangeRBeginCall ==
  /\ ub # "trap"
  /\ ~rit.open
  /\ \E low \in Bounds, high \in Bounds, flags \in RangeFlags :
    \E o \in OutcomesOf(RangeRBeginNullCmp(Tree, low, high, flags, 0)) :
      /\ ub' = UbOf(RangeRBeginNullCmp(Tree, low, high, flags, 0), o)
      /\ rit' = IF o = TRAP THEN NoRange
                ELSE Opened(Tree, RangeRBegin(Tree, low, high, flags, o))
      /\ out' = [op |-> "range_rbegin"]
      /\ UNCHANGED <<treeVars, it, auxVars>>

\* gc_rb_tree_iterator_range_next(&rit)
RangeNextCall ==
  /\ ub # "trap"
  /\ rit.open
  /\ \E o \in OutcomesOf(RangeNextNullCmp(Tree, rit.r, 0)) :
    /\ ub' = UbOf(RangeNextNullCmp(Tree, rit.r, 0), o)
    /\ rit' = IF o = TRAP THEN NoRange
              ELSE Advanced(Tree, rit, RangeNext(Tree, rit.r, o))
    /\ out' = [op |-> "range_next"]
    /\ UNCHANGED <<treeVars, it, auxVars>>

\* The range iterator goes out of scope.
RangeEnd ==
  /\ ub # "trap"
  /\ rit.open
  /\ rit' = NoRange
  /\ out' = [op |-> "range_end"]
  /\ ub' = "no"
  /\ UNCHANGED <<treeVars, it, auxVars>>

\* The same calls by a caller that holds a plain iterator or a range
\* iterator, one at a time.
SoleIterBegin == ~rit.open /\ IterBegin
SoleIterRBegin == ~rit.open /\ IterRBegin
SoleRangeBegin == it.kind = "none" /\ RangeBeginCall
SoleRangeRBegin == it.kind = "none" /\ RangeRBeginCall

HoldsBuffer == out.op \in {"slice", "filter"}

\* results = gc_rb_tree_slice(tree, low, high, flags, &count); the caller
\* holds one result buffer at a time.
Slice ==
  /\ ub # "trap"
  /\ ~HoldsBuffer
  /\ \E low \in Bounds, high \in Bounds, flags \in SliceFlags :
    \E o \in OutcomesOf(SliceNullCmp(Tree, low, high, flags, 0)) :
      /\ ub' = UbOf(SliceNullCmp(Tree, low, high, flags, 0), o)
      /\ out' = [op |-> "slice", low |-> low, high |-> high, flags |-> flags,
                 ret |-> IF o = TRAP THEN NullResult
                         ELSE TreeSlice(Tree, low, high, flags, o)]
      /\ UNCHANGED <<treeVars, it, rit, auxVars>>

\* results = gc_rb_tree_filter(tree, pred, user_data, &count)
Filter ==
  /\ ub # "trap"
  /\ ~HoldsBuffer
  /\ \E pr \in Preds :
    /\ out' = [op |-> "filter", pred |-> pr, ret |-> TreeFilter(Tree, pr)]
    /\ UNCHANGED <<treeVars, it, rit, ub, auxVars>>

\* free(results)
Release ==
  /\ ub # "trap"
  /\ HoldsBuffer
  /\ out' = [op |-> "free"]
  /\ ub' = "no"
  /\ UNCHANGED <<treeVars, it, rit, auxVars>>

\* ---- growable-buffer filter
\* Keys up to MaxDaMix come and go in any order, larger ones come in
\* ascending order and stay.
InsertDa ==
  \E k \in 1..MaxDaKey :
    /\ k \notin Keys(live)
    /\ k <= MaxDaMix \/ \A q \in Keys(live) : q < k
    /\ DoInsert(Obj(k, 1))
DeleteDa == \E k \in 1..MaxDaMix : DoDelete(k)

DaPreds == {[f |-> "always", ud |-> 0], NULLPRED}
             \cup {[f |-> "less_than", ud |-> l] : l \in {1, GC_INIT_CAP + 1, MaxDaKey + 1}}
             \cup {[f |-> "parity", ud |-> b] : b \in 0..1}

\* results = gc_rb_tree_filter_with_da(tree, pred, user_data, &count)
FilterWithDa ==
  /\ ub # "trap"
  /\ \E pr \in DaPreds :
    /\ out' = [op |-> "filter_with_da", pred |-> pr, ret |-> TreeFilterWithDa(Tree, pr)]
    /\ UNCHANGED <<treeVars, it, rit, ub, auxVars>>

\* ---- the scenario of test_int_tree, then the slice of test_filtered_slice
Values == <<10, 20, 30, 15, 25, 5, 1>>
ToDelete == <<20, 10>>

\* How far the calls so far follow the scenario: 0 after create, i after the
\* i-th call of the scenario in its order, -1 once they have left it.
StepOf(o) ==
  IF o.op = "create" THEN 0
  ELSE IF o.op \in {"sc_insert", "sc_delete", "sc_slice"} THEN o.step
  ELSE -1

\* val = GC_MALLOC(sizeof(int)); *val = values[i]; gc_rb_tree_insert(tree, val);
\* the node of values[i] gets address i.
ScInsert ==
  \E i \in 1..Len(Values) :
    /\ Obj(Values[i], 1) \notin live
    /\ i \notin allocd
    /\ root' = TreeInsert(Tree, i, Obj(Values[i], 1)).root
    /\ node' = TreeInsert(Tree, i, Obj(Values[i], 1)).n
    /\ allocd' = allocd \cup {i}
    /\ live' = live \cup {Obj(Values[i], 1)}
    /\ out' = [op |-> "sc_insert", step |-> IF StepOf(out) = i - 1 THEN i ELSE -1]
    /\ UNCHANGED <<it, rit, ub, auxVars>>

\* node = gc_rb_tree_search(tree, &v); if (node != tree->nil)
\* gc_rb_tree_delete(tree, node, GC_FREE);
ScDelete ==
  \E i \in 1..Len(Values) :
    LET z == TreeSearch(Tree, Probe(Values[i])) IN
    /\ z # NIL
    /\ root' = FreeNodeAt(TreeDelete(Tree, z), z).root
    /\ node' = FreeNodeAt(TreeDelete(Tree, z), z).n
    /\ allocd' = allocd \ {z}
    /\ live' = live \ {node[z].data}
    /\ out' = [op |-> "sc_delete",
               step |-> IF StepOf(out) \in Len(Values)..(Len(Values) + Len(ToDelete) - 1)
                           /\ Values[i] = ToDelete[StepOf(out) - Len(Values) + 1]
                        THEN StepOf(out) + 1 ELSE -1]
    /\ UNCHANGED <<it, rit, ub, auxVars>>

\* int low = 5, high = 25; gc_rb_tree_slice(tree, &low, &high,
\* GC_RB_RANGE_INCLUSIVE_LOW | GC_RB_RANGE_INCLUSIVE_HIGH, &slice_count);
ScSlice ==
  /\ out.op # "sc_slice"
  /\ out' = [op |-> "sc_slice",
             step |-> IF StepOf(out) = Len(Values) + Len(ToDelete)
                      THEN StepOf(out) + 1 ELSE -1,
             ret |-> TreeSlice(Tree, Probe(5), Probe(25),
                               GC_RB_RANGE_INCLUSIVE_LOW + GC_RB_RANGE_INCLUSIVE_HIGH, 0)]
  /\ UNCHANGED <<treeVars, it, rit, ub, auxVars>>

\* ---- lifecycle: insert, delete with or without a destructor, clear, destroy
Here(S) == /\ root' = S.root
           /\ node' = S.n
           /\ allocd' = S.alive

\* A payload that was handed to a destructor no longer exists.
LifeInsert ==
  /\ mem.tree = "live"
  /\ \E k \in 1..MaxQKey :
       /\ k \notin Keys(live)
       /\ ~BagIn(Obj(k, 1), mem.dtor)
       /\ DoInsert(Obj(k, 1))

\* gc_rb_tree_delete(tree, gc_rb_tree_search(tree, &k), free_data), the key
\* in the tree or not
LifeDelete ==
  /\ mem.tree = "live"
  /\ \E k \in 0..MaxQKey, fd \in BOOLEAN :
       /\ Here(DeleteWith(Whole, TreeSearch(Tree, Probe(k)), fd))
       /\ mem' = DeleteWith(Whole, TreeSearch(Tree, Probe(k)), fd).m
       /\ live' = live \ {TreeFind(Tree, Probe(k))}
       /\ out' = [op |-> "delete", fd |-> fd, found |-> TreeSearch(Tree, Probe(k)) # NIL]
       /\ it' = NoIter
       /\ rit' = NoRange
       /\ ub' = "no"
       /\ UNCHANGED <<ht, born>>

\* gc_rb_tree_free_all_nodes(tree, free_data)
LifeClear ==
  /\ mem.tree = "live"
  /\ \E fd \in BOOLEAN :
       /\ Here(FreeAllNodes(Whole, fd))
       /\ mem' = [FreeAllNodes(Whole, fd).m EXCEPT !.cleared = TRUE]
       /\ live' = {}
       /\ out' = [op |-> "free_all_nodes", fd |-> fd, found |-> root # NIL]
       /\ it' = NoIter
       /\ rit' = NoRange
       /\ ub' = "no"
       /\ UNCHANGED <<ht, born>>

\* gc_rb_tree_destroy(tree, free_data); the tree is not used afterwards
LifeDestroy ==
  /\ mem.tree = "live"
  /\ \E fd \in BOOLEAN :
       /\ Here(Destroy(Whole, fd))
       /\ mem' = Destroy(Whole, fd).m
       /\ live' = {}
       /\ out' = [op |-> "destroy", fd |-> fd, found |-> root # NIL]
       /\ it' = NoIter
       /\ rit' = NoRange
       /\ ub' = "no"
       /\ UNCHANGED <<ht, born>>

\* ---- teardown, repeated
\* The tree is filled and emptied while its sentinel is there.
TdInsert == mem.tree = "live" /\ mem.nilp = NIL /\ InsertQ
TdDelete == mem.tree = "live" /\ mem.nilp = NIL /\ Delete

\* gc_rb_tree_clean_up(tree, free_data) on a tree record that was not
\* released; again: clean_up has run on it before.
CleanUpCall ==
  /\ mem.tree = "live"
  /\ mem.bad = {}
  /\ \E fd \in BOOLEAN :
       /\ Here(CleanUp(Whole, fd))
       /\ mem' = CleanUp(Whole, fd).m
       /\ live' = {}
       /\ out' = [op |-> "clean_up", fd |-> fd, again |-> mem.nilp = NULLN]
       /\ it' = NoIter
       /\ rit' = NoRange
       /\ ub' = "no"
       /\ UNCHANGED <<ht, born>>

\* gc_rb_tree_destroy(tree, free_data), after clean_up or not
DestroyCall ==
  /\ mem.tree = "live"
  /\ mem.bad = {}
  /\ \E fd \in BOOLEAN :
       /\ Here(Destroy(Whole, fd))
       /\ mem' = Destroy(Whole, fd).m
       /\ live' = {}
       /\ out' = [op |-> "destroy", fd |-> fd, again |-> mem.nilp = NULLN]
       /\ it' = NoIter
       /\ rit' = NoRange
       /\ ub' = "no"
       /\ UNCHANGED <<ht, born>>

\* ---- node lifecycle with equal keys; the caller records the insertion order
Without(q, p) == SelectSeq(q, LAMBDA e : e # p)

\* gc_rb_tree_insert(tree, p), p a payload object not in the tree
CopyInsert ==
  \E k \in 1..MaxDupKey, i \in 1..MaxCopies :
    LET p == Obj(k, i)
        T == TreeInsert(Tree, AddrOf(p), p)
    IN  /\ mem.tree = "live"
        /\ k <= MaxTwinKey \/ i = 1
        /\ p \notin live
        /\ AddrOf(p) \notin allocd
        /\ root' = T.root
        /\ node' = T.n
        /\ allocd' = allocd \cup {AddrOf(p)}
        /\ live' = live \cup {p}
        /\ born' = Append(born, p)
        /\ out' = [op |-> "insert", node |-> AddrOf(p), two |-> FALSE]
        /\ it' = NoIter
        /\ rit' = NoRange
        /\ ub' = "no"
        /\ UNCHANGED <<mem, ht>>

\* gc_rb_tree_delete(tree, z, NULL), z the node of key k that
\* gc_rb_tree_search returns, or the first one of key k in the walk (the
\* current node of a range iterator begun at k, found by
\* gc_rb_tree_lower_bound). two: z had two children.
CopyDelete ==
  \E k \in 1..MaxDupKey, first \in BOOLEAN :
    LET z == IF first THEN LowerBound(Tree, Probe(k), TRUE, 0)
             ELSE TreeSearch(Tree, Probe(k))
        T == FreeNodeAt(TreeDelete(Tree, z), z)
    IN  /\ mem.tree = "live"
        /\ z \in allocd
        /\ node[z].data.key = k
        /\ root' = T.root
        /\ node' = T.n
        /\ allocd' = allocd \ {z}
        /\ live' = live \ {node[z].data}
        /\ born' = Without(born, node[z].data)
        /\ out' = [op |-> "delete", node |-> z,
                   two |-> node[z].left # NIL /\ node[z].right # NIL]
        /\ it' = NoIter
        /\ rit' = NoRange
        /\ ub' = "no"
        /\ UNCHANGED <<mem, ht>>

\* gc_rb_tree_find(tree, &k)
CopyFind ==
  \E k \in 1..MaxDupKey :
    /\ mem.tree = "live"
    /\ out' = [op |-> "find", node |-> TreeSearch(Tree, Probe(k)), two |-> FALSE]
    /\ UNCHANGED <<treeVars, it, rit, ub, auxVars>>

\* gc_rb_tree_free_all_nodes(tree, NULL)
CopyClear ==
  /\ mem.tree = "live"
  /\ Here(FreeAllNodes(Whole, FALSE))
  /\ mem' = [FreeAllNodes(Whole, FALSE).m EXCEPT !.cleared = TRUE]
  /\ live' = {}
  /\ born' = <<>>
  /\ out' = [op |-> "free_all_nodes", node |-> NIL, two |-> FALSE]
  /\ it' = NoIter
  /\ rit' = NoRange
  /\ ub' = "no"
  /\ UNCHANGED ht

\* ---- bound queries
InsertB == \E k \in 1..MaxBoundKey : k \notin Keys(live) /\ DoInsert(Obj(k, 1))

\* gc_rb_tree_lower_bound(tree, &k, inclusive), as the range iterators call it
LowerBoundCall ==
  \E k \in 0..(MaxBoundKey + 1), inclusive \in BOOLEAN :
    /\ out' = [op |-> "lower_bound", key |-> k, inclusive |-> inclusive,
               ret |-> LowerBound(Tree, Probe(k), inclusive, 0)]
    /\ UNCHANGED <<treeVars, it, rit, ub, auxVars>>

\* gc_rb_tree_upper_bound(tree, &k, inclusive)
UpperBoundCall ==
  \E k \in 0..(MaxBoundKey + 1), inclusive \in BOOLEAN :
    /\ out' = [op |-> "upper_bound", key |-> k, inclusive |-> inclusive,
               ret |-> UpperBound(Tree, Probe(k), inclusive, 0)]
    /\ UNCHANGED <<treeVars, it, rit, ub, auxVars>>

\* ---- validate on a hand-built structure
\* Node i > 1 hangs under an earlier node, on its left (0) or right (1) side,
\* no two on the same side of the same node; node 1 is the root.
ShapeLinks(n) ==
  {l \in [2..n -> (1..n) \X {0, 1}] :
     /\ \A i \in 2..n : l[i][1] < i
     /\ \A i, j \in 2..n : i # j => l[i] # l[j]}

ChildAt(n, l, a, side) ==
  IF \E c \in 2..n : l[c] = <<a, side>>
  THEN CHOOSE c \in 2..n : l[c] = <<a, side>>
  ELSE NIL

MkShape(n, l, key, col, nilcol) ==
  [a \in {NIL} \cup Addrs |->
     IF a = NIL THEN [FreeNode EXCEPT !.color = nilcol]
     ELSE IF a > n THEN FreeNode
     ELSE [data |-> Obj(key[a], a), color |-> col[a],
           left |-> ChildAt(n, l, a, 0), right |-> ChildAt(n, l, a, 1),
           parent |-> IF a = 1 THEN NIL ELSE l[a][1]]]

InitShape ==
  /\ \E n \in 0..MaxShape :
       \E l \in ShapeLinks(n), key \in [1..n -> 1..MaxShapeKey],
          col \in [1..n -> {RED, BLACK}], nilcol \in {RED, BLACK} :
         /\ root = IF n = 0 THEN NIL ELSE 1
         /\ node = MkShape(n, l, key, col, nilcol)
         /\ allocd = 1..n
         /\ live = {Obj(key[a], a) : a \in 1..n}
  /\ out = [op |-> "create"]
  /\ it = NoIter
  /\ rit = NoRange
  /\ ub = "no"
  /\ mem = NewMem
  /\ ht = NewHash
  /\ born = <<>>

\* res = gc_rb_tree_validate(tree)
ValidateCall ==
  /\ out.op # "validate"
  /\ out' = [op |-> "validate", ret |-> Validate(Tree)]
  /\ UNCHANGED <<treeVars, it, rit, ub, auxVars>>

\* ---- every query
\* Seeded fault: a query leaves its cursor in the sentinel's parent field.
AfterQueryParked(T) == SetParent(T, NIL, T.root)

\* The structure a query returns from: the query functions take
\* const RBTree * and assign to tree->root and to a node's field nowhere.
AfterQuery(T) == T

InsertR == \E k \in 1..MaxReadKey : k \notin Keys(live) /\ DoInsert(Obj(k, 1))

\* The caller holds no iterator.
Idle == it.kind = "none" /\ ~rit.open

\* A call of a query that returns a node or a payload, ret what it returned.
Asked(op, ret) ==
  /\ ub # "trap"
  /\ Idle
  /\ root' = AfterQuery(Tree).root
  /\ node' = AfterQuery(Tree).n
  /\ out' = [op |-> op, ret |-> ret]
  /\ UNCHANGED <<allocd, live, it, rit, ub, auxVars>>

\* gc_rb_tree_search(tree, &k), gc_rb_tree_find(tree, &k)
SearchCall == \E k \in 0..(MaxReadKey + 1) : Asked("search", TreeSearch(Tree, Probe(k)))
FindCall == \E k \in 0..(MaxReadKey + 1) : Asked("find", TreeFind(Tree, Probe(k)).key)

\* gc_rb_tree_min(tree), gc_rb_tree_max(tree)
MinCall == Asked("min", TreeMin(Tree))
MaxCall == Asked("max", TreeMax(Tree))

\* gc_rb_tree_successor(tree, x), gc_rb_tree_predecessor(tree, x), x a node
\* of the tree
SuccessorCall == \E x \in allocd : Asked("successor", Successor(Tree, x))
PredecessorCall == \E x \in allocd : Asked("predecessor", Predecessor(Tree, x))

\* The iterators, the bulk queries and validate, by a caller that holds no
\* iterator and starts them right after an update of the tree.
AtRest == Idle /\ out.op \in {"create", "insert", "delete"}
RestIterBegin == AtRest /\ IterBegin
RestIterRBegin == AtRest /\ IterRBegin
RestRangeBegin == AtRest /\ RangeBeginCall
RestRangeRBegin == AtRest /\ RangeRBeginCall
RestSlice == AtRest /\ Slice
RestFilter == AtRest /\ Filter
RestFilterWithDa == AtRest /\ FilterWithDa
RestValidate == AtRest /\ ValidateCall

\* ---- hash table
\* The caller takes keys 0, 1, 2, ... below GC_HASH_MIN_CAPACITY into use in
\* that order and the keys from GC_HASH_MIN_CAPACITY on, which collide with
\* them, at any time; it holds at most MaxHLive entries.
HashKeyReady(k) == k <= ht.fresh \/ k >= GC_HASH_MIN_CAPACITY

\* gc_hash_insert(&ht, key, value, 0)
HashInsertCall ==
  /\ ~ht.tb.hang
  /\ \E k \in 0..MaxHKey, v \in 1..MaxHVal :
       /\ HashKeyReady(k)
       /\ ht.shadow[k] # 0 \/ ht.tb.count < MaxHLive
       /\ ht' = [tb |-> HashInsert(ht.tb, k, v),
                 shadow |-> [ht.shadow EXCEPT ![k] = v],
                 fresh |-> IF k = ht.fresh THEN k + 1 ELSE ht.fresh]
       /\ out' = [op |-> "hash_insert"]
       /\ UNCHANGED <<treeVars, it, rit, ub, mem, born>>

\* gc_hash_remove(&ht, key, 0)
HashRemoveCall ==
  /\ ~ht.tb.hang
  /\ \E k \in 0..MaxHKey :
       /\ HashKeyReady(k)
       /\ ht' = [ht EXCEPT !.tb = HashRemove(ht.tb, k).t, !.shadow[k] = 0]
       /\ out' = [op |-> "hash_remove", ret |-> HashRemove(ht.tb, k).ret,
                  was |-> ht.shadow[k] # 0]
       /\ UNCHANGED <<treeVars, it, rit, ub, mem, born>>

\* ---- generated integer-key table
\* The caller's table after gc_hash_NAME_init(&ht, 0).
InitInt ==
  /\ root = NIL
  /\ node = [a \in {NIL} \cup Addrs |-> FreeNode]
  /\ allocd = {}
  /\ live = {}
  /\ out = [op |-> "create"]
  /\ it = NoIter
  /\ rit = NoRange
  /\ ub = "no"
  /\ mem = NewMem
  /\ ht = [tb |-> IntInit(0), shadow |-> [k \in 0..MaxHKey |-> 0], fresh |-> 0]
  /\ born = <<>>

\* The caller takes keys 0, 1, 2, ... into use in that order, each with
\* value 1 and only while the earlier ones are in the table, and at any time
\* has changed or removed at most MaxIOdd of them.
IntOdd(shadow, fresh) == Cardinality({k \in 0..(fresh - 1) : shadow[k] # 1}) <= MaxIOdd

\* gc_hash_NAME_set(&ht, key, val)
IntSetCall ==
  /\ ~ht.tb.hang
  /\ \E k \in 0..MaxIKey, v \in 1..MaxHVal :
       /\ k <= ht.fresh
       /\ k = ht.fresh => v = 1 /\ \A j \in 0..(k - 1) : ht.shadow[j] # 0
       /\ IntOdd([ht.shadow EXCEPT ![k] = v], ht.fresh)
       /\ ht' = [tb |-> IntSet(ht.tb, k, v),
                 shadow |-> [ht.shadow EXCEPT ![k] = v],
                 fresh |-> IF k = ht.fresh THEN k + 1 ELSE ht.fresh]
       /\ out' = [op |-> "int_set", isnew |-> ht.shadow[k] = 0,
                  load |-> ht.tb.count, cap |-> ht.tb.capacity]
       /\ UNCHANGED <<treeVars, it, rit, ub, mem, born>>

\* gc_hash_NAME_remove(&ht, key)
IntRemoveCall ==
  /\ ~ht.tb.hang
  /\ \E k \in 0..MaxIKey :
       /\ k <= ht.fresh
       /\ IntOdd([ht.shadow EXCEPT ![k] = 0], ht.fresh)
       /\ ht' = [ht EXCEPT !.tb = IntRemove(ht.tb, k).t, !.shadow[k] = 0]
       /\ out' = [op |-> "int_remove", ret |-> IntRemove(ht.tb, k).ret,
                  was |-> ht.shadow[k] # 0]
       /\ UNCHANGED <<treeVars, it, rit, ub, mem, born>>

Next == Insert \/ Delete
NextDup == InsertDup \/ Delete
NextIter == InsertQ \/ Delete \/ IterBegin \/ IterRBegin \/ IterNext \/ IterPrev
NextRange == InsertQ \/ Delete \/ RangeBeginCall \/ RangeRBeginCall \/ RangeNextCall \/ RangeEnd
NextQuery == InsertQ \/ Delete \/ Slice \/ Filter \/ Release
NextDa == InsertDa \/ DeleteDa \/ FilterWithDa
NextScenario == ScInsert \/ ScDelete \/ ScSlice
NextLife == LifeInsert \/ LifeDelete \/ LifeClear \/ LifeDestroy
NextShape == ValidateCall
NextHash == HashInsertCall \/ HashRemoveCall
NextInt == IntSetCall \/ IntRemoveCall
NextSteps == InsertStep \/ DeleteStep
NextCopies == CopyInsert \/ CopyDelete \/ CopyFind \/ CopyClear
NextBounds == InsertB \/ Delete \/ LowerBoundCall \/ UpperBoundCall
NextTeardown == TdInsert \/ TdDelete \/ CleanUpCall \/ DestroyCall
NextReadOnly ==
  \/ InsertR
  \/ Delete
  \/ SearchCall
  \/ FindCall
  \/ MinCall
  \/ MaxCall
  \/ SuccessorCall
  \/ PredecessorCall
  \/ RestIterBegin
  \/ RestIterRBegin
  \/ IterNext
  \/ IterPrev
  \/ RestRangeBegin
  \/ RestRangeRBegin
  \/ RangeNextCall
  \/ RangeEnd
  \/ RestSlice
  \/ RestFilter
  \/ Release
  \/ RestFilterWithDa
  \/ RestValidate
NextTurns == InsertTurns \/ DeleteTurns
NextDeep == InsertRising \/ DeleteDeep
NextExhaust ==
  \/ InsertQ
  \/ Delete
  \/ SoleIterBegin
  \/ SoleIterRBegin
  \/ IterNext
  \/ IterPrev
  \/ SoleRangeBegin
  \/ SoleRangeRBegin
  \/ RangeNextCall
  \/ RangeEnd

Spec == Init /\ [][Next]_vars
SpecDup == Init /\ [][NextDup]_vars
SpecIter == Init /\ [][NextIter]_vars
SpecRange == Init /\ [][NextRange]_vars
SpecQuery == Init /\ [][NextQuery]_vars
SpecDa == Init /\ [][NextDa]_vars
SpecScenario == Init /\ [][NextScenario]_vars
SpecLife == Init /\ [][NextLife]_vars
SpecShape == InitShape /\ [][NextShape]_vars
SpecHash == Init /\ [][NextHash]_vars
SpecInt == InitInt /\ [][NextInt]_vars
SpecSteps == Init /\ [][NextSteps]_vars
SpecCopies == Init /\ [][NextCopies]_vars
SpecBounds == Init /\ [][NextBounds]_vars
SpecExhaust == Init /\ [][NextExhaust]_vars
SpecTeardown == Init /\ [][NextTeardown]_vars
SpecReadOnly == Init /\ [][NextReadOnly]_vars
SpecTurns == Init /\ [][NextTurns]_vars
SpecDeep == Init /\ [][NextDeep]_vars

\* ----------------------------------------------------------------- claims
\* What the claims compare the code against, computed from the set of live
\* payloads alone, never from the tree.
RECURSIVE SortedSeq(_)
SortedSeq(S) ==
  IF S = {} THEN <<>>
  ELSE LET m == CHOOSE x \in S : \A y \in S : x.key <= y.key
       IN  <<m>> \o SortedSeq(S \ {m})

Reverse(q) == [i \in 1..Len(q) |-> q[Len(q) + 1 - i]]
IsPrefix(a, b) == Len(a) <= Len(b) /\ \A i \in 1..Len(a) : a[i] = b[i]
Last(q) == q[Len(q)]

\* p lies within the bounds; a NULL bound is no bound.
InRange(p, low, high, flags) ==
  /\ \/ low = NULLP
     \/ p.key > low.key
     \/ HasFlag(flags, GC_RB_RANGE_INCLUSIVE_LOW) /\ p.key = low.key
  /\ \/ high = NULLP
     \/ p.key < high.key
     \/ HasFlag(flags, GC_RB_RANGE_INCLUSIVE_HIGH) /\ p.key = high.key

Ascending(S, low, high, flags) ==
  SelectSeq(SortedSeq(S), LAMBDA p : InRange(p, low, high, flags))

ExpectedRange(S, low, high, flags, reverse) ==
  IF reverse THEN Reverse(Ascending(S, low, high, flags))
  ELSE Ascending(S, low, high, flags)

Larger(p) == {q \in live : q.key > p.key}
Smaller(p) == {q \in live : q.key < p.key}
NextLarger(p) ==
  IF Larger(p) = {} THEN NULLP
  ELSE CHOOSE q \in Larger(p) : \A r \in Larger(p) : q.key <= r.key
NextSmaller(p) ==
  IF Smaller(p) = {} THEN NULLP
  ELSE CHOOSE q \in Smaller(p) : \A r \in Smaller(p) : q.key >= r.key

\* The payloads in a result buffer, before the terminator.
Entries(ret) == IF ret.isnull THEN <<>> ELSE SubSeq(ret.buf, 1, ret.count)

\* A result follows the buffer-plus-terminator convention for the payloads e.
Returns(ret, e) ==
  IF e = <<>> THEN ret.isnull /\ ret.count = 0
  ELSE /\ ~ret.isnull
       /\ ~ret.oob
       /\ ret.count = Len(e)
       /\ ret.buf = e \o <<NULLP>>

\* The slice flags with the direction bit toggled.
Flip(flags) ==
  IF HasFlag(flags, GC_RB_TREE_SLICE_DESCENDING)
  THEN flags - GC_RB_TREE_SLICE_DESCENDING
  ELSE flags + GC_RB_TREE_SLICE_DESCENDING

IsAscending(q) == \A i \in 1..(Len(q) - 1) : q[i].key < q[i + 1].key

\* C1: from create, after every insert of a key not in the tree and every
\* delete of a node returned by search, validate returns GC_RB_TREE_OK.
C1_ValidateOK == Validate(Tree) = GC_RB_TREE_OK

\* C1 witness: a delete that leaves at least five nodes has been repaired.
C1_Witness ==
  /\ out.op = "delete"
  /\ Cardinality(live) >= 5
  /\ Validate(Tree) = GC_RB_TREE_OK

\* C2: with payloads that compare equal in the tree, validate returns
\* GC_RB_TREE_OK after the insert and after every later insert or delete.
C2_DuplicatesValid ==
  out.op \in {"insert", "delete"} => Validate(Tree) = GC_RB_TREE_OK

\* C3: search finds a node holding k, and find its payload, exactly for the
\* keys inserted and not deleted since; for any other key search returns the
\* sentinel (never NULL) and find returns NULL.
C3_Membership ==
  \A k \in 0..(MaxKey + 1) :
    LET x == TreeSearch(Tree, Probe(k)) IN
    IF k \in Keys(live)
    THEN /\ x \in allocd
         /\ node[x].data = Obj(k, 1)
         /\ TreeFind(Tree, Probe(k)) = Obj(k, 1)
    ELSE /\ x = NIL
         /\ TreeFind(Tree, Probe(k)) = NULLP

\* C3 witness: after a delete, a tree with keys present and keys removed.
C3_Witness ==
  /\ out.op = "delete"
  /\ Cardinality(live) >= 4
  /\ TreeSearch(Tree, Probe(3)) = NIL
  /\ TreeSearch(Tree, Probe(4)) # NIL
  /\ TreeFind(Tree, Probe(1)) = Obj(1, 1)

\* C4: a forward iteration (begin, then next) yields the payloads in strictly
\* ascending order, each once, and is invalid after exactly N of them; the
\* successor of a node holds the next larger payload, NULL for the maximum.
C4_ForwardOrder ==
  /\ it.kind = "fwd" =>
       /\ IsPrefix(it.hist, SortedSeq(live))
       /\ IF IteratorValid(Tree, it.cur)
          THEN it.hist # <<>> /\ Last(it.hist) = IteratorData(Tree, it.cur)
          ELSE it.hist = SortedSeq(live)
  /\ \A x \in allocd :
       /\ IteratorData(Tree, Successor(Tree, x)) = NextLarger(node[x].data)
       /\ Larger(node[x].data) = {} => Successor(Tree, x) = NULLN

\* C4 witness: a forward iteration over at least three payloads has ended.
C4_Witness ==
  /\ it.kind = "fwd"
  /\ out.op = "iterator_next"
  /\ ~IteratorValid(Tree, it.cur)
  /\ Len(it.hist) >= 3

\* C5: a reverse iteration (rbegin, then prev) starts at the maximum and
\* yields the forward sequence reversed; the predecessor of a node holds the
\* next smaller payload, NULL for the minimum.
C5_ReverseOrder ==
  /\ it.kind = "rev" =>
       /\ IsPrefix(it.hist, Reverse(SortedSeq(live)))
       /\ IF IteratorValid(Tree, it.cur)
          THEN it.hist # <<>> /\ Last(it.hist) = IteratorData(Tree, it.cur)
          ELSE it.hist = Reverse(SortedSeq(live))
  /\ \A x \in allocd :
       /\ IteratorData(Tree, Predecessor(Tree, x)) = NextSmaller(node[x].data)
       /\ Smaller(node[x].data) = {} => Predecessor(Tree, x) = NULLN

\* C5 witness: a reverse iteration over at least three payloads has ended.
C5_Witness ==
  /\ it.kind = "rev"
  /\ out.op = "iterator_prev"
  /\ ~IteratorValid(Tree, it.cur)
  /\ Len(it.hist) >= 3

\* C6: with non-NULL bounds (low > high and low = high included) and any
\* inclusivity flags, range_begin + range_next yields exactly the payloads
\* within the bounds in ascending order, and range_rbegin + range_next the
\* same sequence reversed.
C6_RangeCorrect ==
  (rit.open /\ rit.r.low # NULLP /\ rit.r.high # NULLP) =>
    LET e == ExpectedRange(live, rit.r.low, rit.r.high, rit.r.flags, rit.r.reverse) IN
    /\ IsPrefix(rit.hist, e)
    /\ IF RangeValid(Tree, rit.r)
       THEN rit.hist # <<>> /\ Last(rit.hist) = RangeData(Tree, rit.r)
       ELSE rit.hist = e

\* C6 witness: a reverse range with exclusive bounds has ended after two
\* payloads, short of the whole tree.
C6_Witness ==
  /\ rit.open /\ rit.r.low # NULLP /\ rit.r.high # NULLP
  /\ rit.r.reverse /\ rit.r.flags = 0
  /\ out.op = "range_next"
  /\ ~RangeValid(Tree, rit.r)
  /\ Len(rit.hist) = 2
  /\ Cardinality(live) > 2

\* C7: a NULL low or high bound is treated as absent: the range iterator
\* yields every payload the other bound allows, and the comparator is only
\* ever applied to real payloads and non-NULL bounds.
C7_Unbounded ==
  /\ ub = "no"
  /\ (rit.open /\ (rit.r.low = NULLP \/ rit.r.high = NULLP)) =>
       LET e == ExpectedRange(live, rit.r.low, rit.r.high, rit.r.flags, rit.r.reverse) IN
       /\ IsPrefix(rit.hist, e)
       /\ ~RangeValid(Tree, rit.r) => rit.hist = e

\* C8: slice returns count + 1 slots: the payloads the range iterator yields,
\* in its order, then NULL at index count; both passes visit the same
\* elements, so no write leaves the allocation; with nothing in range, or an
\* empty tree, it returns NULL and count 0. (Calls whose comparisons are all
\* defined; a call that compares against NULL is the subject of C7.)
C8_SliceBuffer ==
  (out.op = "slice" /\ ub = "no") =>
    /\ ~out.ret.oob
    /\ Returns(out.ret, ExpectedRange(live, out.low, out.high, out.flags,
                           HasFlag(out.flags, GC_RB_TREE_SLICE_DESCENDING)))
    /\ live = {} => out.ret.isnull /\ out.ret.count = 0

\* C8 witness: a slice of two payloads out of more has been returned.
C8_Witness ==
  /\ out.op = "slice" /\ ub = "no"
  /\ ~out.ret.isnull
  /\ out.ret.count = 2
  /\ Cardinality(live) > 2

\* C9: for the same tree, bounds and inclusivity flags, slice with
\* GC_RB_TREE_SLICE_DESCENDING returns the payloads of the slice without it
\* in exactly reversed order, and without the flag the order is ascending.
C9_SliceDirection ==
  (/\ out.op = "slice"
   /\ ub = "no"
   /\ ~SliceNullCmp(Tree, out.low, out.high, Flip(out.flags), 0)) =>
    LET other == TreeSlice(Tree, out.low, out.high, Flip(out.flags), 0) IN
    /\ Entries(out.ret) = Reverse(Entries(other))
    /\ out.ret.count = other.count
    /\ out.ret.isnull = other.isnull
    /\ IF HasFlag(out.flags, GC_RB_TREE_SLICE_DESCENDING)
       THEN IsAscending(Reverse(Entries(out.ret)))
       ELSE IsAscending(Entries(out.ret))

\* C9 witness: a descending slice of at least two payloads.
C9_Witness ==
  /\ out.op = "slice" /\ ub = "no"
  /\ HasFlag(out.flags, GC_RB_TREE_SLICE_DESCENDING)
  /\ out.ret.count >= 2
  /\ out.ret.buf[1].key > out.ret.buf[2].key

\* C10: filter returns exactly the payloads satisfying the predicate, in
\* ascending order (all of them for an always-true predicate), count is the
\* number of entries, NULL follows them; with no match it returns NULL and 0.
C10_FilterCorrect ==
  (out.op = "filter" /\ out.pred # NULLPRED) =>
    Returns(out.ret, SelectSeq(SortedSeq(live), LAMBDA p : PredEval(out.pred, p)))

\* C10 witness: a filter that keeps two payloads and drops others.
C10_Witness ==
  /\ out.op = "filter"
  /\ out.pred.f = "parity"
  /\ out.ret.count = 2
  /\ Cardinality(live) > 2

\* C11: for every tree and predicate gc_rb_tree_filter_with_da returns the
\* same payloads in the same order and the same count as gc_rb_tree_filter,
\* and NULL with count 0 exactly when gc_rb_tree_filter does.
C11_DaSameAsFilter ==
  out.op = "filter_with_da" =>
    /\ Entries(out.ret) = Entries(TreeFilter(Tree, out.pred))
    /\ out.ret.count = TreeFilter(Tree, out.pred).count
    /\ out.ret.isnull = TreeFilter(Tree, out.pred).isnull

\* C11 witness: more matches than the first allocation of GC_INIT_CAP slots
\* holds, so the buffer was reallocated while filling.
C11_Witness ==
  /\ out.op = "filter_with_da"
  /\ out.ret.count > GC_INIT_CAP
  /\ Len(out.ret.buf) = 2 * GC_INIT_CAP

\* C12: the buffer of gc_rb_tree_filter_with_da has, for every number of
\* matches, a slot at index count inside the allocation, and that slot holds
\* NULL.
C12_DaTerminator ==
  (out.op = "filter_with_da" /\ ~out.ret.isnull) =>
    /\ out.ret.count + 1 <= Len(out.ret.buf)
    /\ out.ret.buf[out.ret.count + 1] = NULLP

\* The payloads met by an in-order walk from gc_rb_tree_iterator_begin.
InOrderKeys ==
  LET e == Entries(TreeFilter(Tree, [f |-> "always", ud |-> 0]))
  IN  [i \in 1..Len(e) |-> e[i].key]

\* C13: inserting 10, 20, 30, 15, 25, 5, 1 in that order into an empty tree
\* validates OK after each insert and gives the in-order traversal
\* 1, 5, 10, 15, 20, 25, 30; deleting 20 and then 10 validates OK after each
\* delete and the deleted key is no longer found; the slice from 5 to 25,
\* both inclusive, is then exactly 5, 15, 25.
C13_Scenario ==
  /\ StepOf(out) \in 1..(Len(Values) + Len(ToDelete)) => Validate(Tree) = GC_RB_TREE_OK
  /\ StepOf(out) = Len(Values) => InOrderKeys = <<1, 5, 10, 15, 20, 25, 30>>
  /\ StepOf(out) = Len(Values) + 1 => TreeFind(Tree, Probe(20)) = NULLP
  /\ StepOf(out) = Len(Values) + 2 =>
       /\ TreeFind(Tree, Probe(10)) = NULLP
       /\ TreeFind(Tree, Probe(20)) = NULLP
       /\ InOrderKeys = <<1, 5, 15, 25, 30>>
  /\ StepOf(out) = Len(Values) + 3 =>
       Returns(out.ret, <<Obj(5, 1), Obj(15, 1), Obj(25, 1)>>)

\* C13 witness: the whole scenario was run, ending with the slice.
C13_Witness ==
  /\ out.op = "sc_slice"
  /\ out.step = Len(Values) + Len(ToDelete) + 1
  /\ out.ret.count = 3

\* C14: on an empty tree (fresh, emptied by deletes or by free_all_nodes) min
\* and max return NULL, find returns NULL, the iterators and both range
\* iterators start not valid, slice and filter return NULL with count 0, and
\* validate returns GC_RB_TREE_OK; no comparison is made.
C14_EmptyTree ==
  (mem.tree = "live" /\ root = NIL) =>
    /\ TreeMin(Tree) = NULLN
    /\ TreeMax(Tree) = NULLN
    /\ \A b \in Bounds : TreeFind(Tree, b) = NULLP
    /\ ~IteratorValid(Tree, IteratorBegin(Tree))
    /\ ~IteratorValid(Tree, IteratorRBegin(Tree))
    /\ \A low \in Bounds, high \in Bounds, flags \in SliceFlags :
         /\ ~RangeBeginNullCmp(Tree, low, high, flags, 0)
         /\ ~RangeRBeginNullCmp(Tree, low, high, flags, 0)
         /\ ~SliceNullCmp(Tree, low, high, flags, 0)
         /\ ~RangeValid(Tree, RangeBegin(Tree, low, high, flags, 0))
         /\ ~RangeValid(Tree, RangeRBegin(Tree, low, high, flags, 0))
         /\ TreeSlice(Tree, low, high, flags, 0) = NullResult
    /\ \A pr \in Preds : TreeFilter(Tree, pr) = NullResult
    /\ Validate(Tree) = GC_RB_TREE_OK

\* C14 witness: a tree that was cleared, filled again and then emptied by
\* deleting its last node.
C14_Witness ==
  /\ mem.tree = "live" /\ root = NIL
  /\ mem.cleared
  /\ out.op = "delete" /\ out.found

\* The payloads a caller of the lifecycle specification can own.
LifePayloads == {Obj(k, 1) : k \in 1..MaxQKey}
Teardown == {"delete", "free_all_nodes", "destroy"}

\* C15: a supplied destructor is invoked exactly once for each payload whose
\* node the call removes or tears down, never for a payload still in the
\* tree and never twice for one payload; with a NULL destructor no payload
\* is touched.
C15_DestructorOnce ==
  /\ [](\A p \in LifePayloads :
          /\ CopiesIn(p, mem.dtor) <= 1
          /\ p \in live => CopiesIn(p, mem.dtor) = 0)
  /\ [](CopiesIn(NULLP, mem.dtor) = 0)
  /\ [][mem'.dtor = IF out'.op \in Teardown /\ out'.fd
                     THEN mem.dtor (+) SetToBag(live \ live')
                     ELSE mem.dtor]_vars

\* C15 witness: free_all_nodes with a destructor released two payloads, then
\* destroy without one ran, as in the tests.
C15_Witness ==
  /\ out.op = "destroy" /\ ~out.fd
  /\ mem.cleared
  /\ BagCardinality(mem.dtor) >= 2

\* C16: destroy releases every remaining node, the sentinel and the tree
\* record, each exactly once: no double free of the sentinel, no read of a
\* released node.
C16_DestroyFreesAll ==
  out.op = "destroy" =>
    /\ mem.tree = "freed"
    /\ mem.nil = "freed"
    /\ allocd = {}
    /\ mem.bad = {}

\* C16 witness: destroy of a tree that still held two nodes.
C16_Witness ==
  /\ out.op = "destroy" /\ out.found
  /\ mem.tree = "freed"
  /\ BagCardinality(mem.dtor) >= 2

\* A tree right after gc_rb_tree_create.
FreshTree == [root |-> NIL, n |-> [a \in {NIL} \cup Addrs |-> FreeNode]]

\* Two trees alike in everything the code reads before writing it: the
\* root, the real nodes, the sentinel's colour.
Alike(A, B) ==
  /\ A.root = B.root
  /\ \A a \in Addrs : A.n[a] = B.n[a]
  /\ A.n[NIL].color = B.n[NIL].color

\* C17: after free_all_nodes the tree record and sentinel are alive, root is
\* the sentinel, and the tree behaves like a fresh one: validate OK, find
\* NULL for every key, an insert gives what it gives on a fresh tree, and
\* every later insert and delete keeps the tree valid and holding exactly
\* the live payloads.
C17_ClearReusable ==
  /\ out.op = "free_all_nodes" =>
       /\ mem.tree = "live" /\ mem.nil = "live" /\ mem.nilp = NIL
       /\ mem.bad = {}
       /\ root = NIL
       /\ allocd = {}
       /\ Alike(Tree, FreshTree)
       /\ Validate(Tree) = GC_RB_TREE_OK
       /\ \A b \in Bounds : TreeFind(Tree, b) = NULLP
       /\ \A p \in LifePayloads :
            Alike(TreeInsert(Tree, AddrOf(p), p), TreeInsert(FreshTree, AddrOf(p), p))
  /\ (mem.cleared /\ mem.tree = "live") =>
       /\ Validate(Tree) = GC_RB_TREE_OK
       /\ Entries(TreeFilter(Tree, [f |-> "always", ud |-> 0])) = SortedSeq(live)

\* C17 witness: a cleared tree that was refilled with three payloads and then
\* lost one to delete.
C17_Witness ==
  /\ mem.cleared /\ mem.tree = "live"
  /\ out.op = "delete" /\ out.found
  /\ Cardinality(live) = 2

\* C19: gc_rb_tree_delete with the sentinel, the result of a search for an
\* absent key, is a no-op: root, every node's links, colour and payload are
\* unchanged, nothing is freed and the destructor is not invoked.
C19_DeleteNilNoOp ==
  [][(out'.op = "delete" /\ ~out'.found) =>
       /\ root' = root
       /\ node' = node
       /\ allocd' = allocd
       /\ live' = live
       /\ mem' = mem]_vars

\* C19 witness: a delete for an absent key, with a destructor, on a tree of
\* two nodes.
C19_Witness ==
  /\ out.op = "delete" /\ ~out.found /\ out.fd
  /\ Cardinality(allocd) = 2

\* The nodes of the subtree at x.
RECURSIVE Sub(_)
Sub(x) == IF x = NIL THEN {} ELSE {x} \cup Sub(node[x].left) \cup Sub(node[x].right)

\* The numbers of BLACK nodes on the paths from x down to the sentinel.
RECURSIVE BlackCounts(_)
BlackCounts(x) ==
  IF x = NIL THEN {0}
  ELSE {c + (IF node[x].color = BLACK THEN 1 ELSE 0) :
          c \in BlackCounts(node[x].left) \cup BlackCounts(node[x].right)}

\* Invariant 1: every payload in a left subtree is smaller than the node's,
\* every payload in a right subtree is larger.
OrderHolds ==
  \A x \in Sub(root) :
    /\ \A y \in Sub(node[x].left) : node[y].data.key < node[x].data.key
    /\ \A y \in Sub(node[x].right) : node[y].data.key > node[x].data.key
\* Invariant 2: the root and the sentinel are BLACK.
RootAndNilBlack == node[root].color = BLACK /\ node[NIL].color = BLACK
\* Invariant 3: a RED node has no RED child.
NoRedRed ==
  \A x \in Sub(root) :
    node[x].color = RED => node[node[x].left].color # RED /\ node[node[x].right].color # RED
\* Invariant 4: every path from the root to the sentinel has the same number
\* of BLACK nodes.
SameBlackHeight == Cardinality(BlackCounts(root)) = 1

\* C18: for every node structure, of any shape and colouring, validate
\* returns GC_RB_TREE_OK if and only if invariants 1-4 all hold, and an error
\* it returns names an invariant that is violated.
C18_ValidateAuthoritative ==
  out.op = "validate" =>
    /\ out.ret = GC_RB_TREE_OK <=>
         (OrderHolds /\ RootAndNilBlack /\ NoRedRed /\ SameBlackHeight)
    /\ out.ret = GC_RB_TREE_ERR_BST => ~OrderHolds
    /\ out.ret = GC_RB_TREE_ERR_NIL_COLOR => ~RootAndNilBlack
    /\ out.ret = GC_RB_TREE_ERR_RED => ~NoRedRed
    /\ out.ret = GC_RB_TREE_ERR_BLACK_HEIGHT => ~SameBlackHeight

\* The slots of the table holding an entry for key k.
SlotsOf(k) ==
  {i \in 0..(ht.tb.capacity - 1) :
     ht.tb.items[i].state = GC_SLOT_OCCUPIED /\ ht.tb.items[i].key = k}

\* C20: after any sequence of gc_hash_insert and gc_hash_remove calls, every
\* call returns, gc_hash_find(k) returns an entry holding the value last
\* inserted for k if and only if k was inserted and not removed since, no key
\* has two entries, and gc_hash_remove returns true exactly when the key was
\* present.
C20_HashRoundTrip ==
  /\ ~ht.tb.hang
  /\ \A k \in 0..MaxHKey :
       /\ HashFind(ht.tb, k) # HANGS
       /\ IF ht.shadow[k] # 0
          THEN /\ HashFind(ht.tb, k) # NULLK
               /\ ht.tb.items[HashFind(ht.tb, k)].value = ht.shadow[k]
          ELSE HashFind(ht.tb, k) = NULLK
       /\ Cardinality(SlotsOf(k)) <= 1
  /\ out.op = "hash_remove" => out.ret = out.was

\* C21: every table kind grows when the load factor reaches 0.6: a set() of
\* a new key on a table of capacity C holding at least 0.6*C keys enlarges
\* the table, every set() returns, and every key set and not removed is
\* returned by get() with its value.
C21_IntTableGrows ==
  /\ ~ht.tb.hang
  /\ (out.op = "int_set" /\ out.isnew /\ out.load * 5 >= out.cap * 3) =>
       ht.tb.capacity > out.cap
  /\ \A k \in 0..MaxIKey :
       /\ ~IntGet(ht.tb, k).hangs
       /\ ht.shadow[k] # 0 => IntGet(ht.tb, k) = IntGot(TRUE, ht.shadow[k], FALSE)

\* C22: after every insert and every delete, in any sequence of operations on
\* distinct keys, every payload in the left subtree of a node is smaller than
\* the node's payload and every payload in its right subtree is larger, for
\* the whole subtrees and not only for the children.
C22_GlobalOrder ==
  out.op \in {"insert", "delete"} =>
    /\ OrderHolds
    /\ {node[x].data : x \in Sub(root)} = live

\* C22 witness: a delete has left a tree in which some node has a grandchild
\* on each side, so that the order of whole subtrees says more than the order
\* of children.
C22_Witness ==
  /\ out.op = "delete"
  /\ OrderHolds
  /\ \E x \in Sub(root) :
       /\ Sub(node[x].left) \ {node[x].left} # {}
       /\ Sub(node[x].right) \ {node[x].right} # {}

\* C23: after every completed insert and delete, in any sequence of
\* operations, all paths from any node down to the sentinel hold the same
\* number of BLACK nodes; a delete whose removed position was BLACK is
\* repaired by the fixup, and one whose removed position was RED leaves
\* nothing to repair.
C23_BlackHeights ==
  out.op \in {"insert", "delete"} =>
    /\ \A x \in Sub(root) : Cardinality(BlackCounts(x)) = 1
    /\ out.same
    /\ (out.op = "delete" /\ out.yc = RED) => (~out.short /\ out.iters = 0)

\* C23 witness: a delete removed a BLACK position, left some path one BLACK
\* node short, and the fixup loop ran before the paths were equal again.
C23_Witness ==
  /\ out.op = "delete"
  /\ out.yc = BLACK
  /\ out.short
  /\ out.iters >= 1
  /\ \A x \in Sub(root) : Cardinality(BlackCounts(x)) = 1
  /\ Cardinality(live) >= 4

C25_RootBlack ==
  out.op \in {"insert", "delete"} =>
    /\ node[root].color = BLACK
    /\ node[root].parent = NIL \/ root = NIL
    /\ out.same

\* C25 witness: the BLACK root with a single, RED child has been deleted, and
\* the child is the root now.
C25_Witness ==
  /\ out.op = "delete"
  /\ out.lone
  /\ root # NIL
  /\ node[root].color = BLACK

\* An insert whose fixup painted the root RED on its way up has completed.
RootRepainted == out.op = "insert" /\ out.top /\ node[root].color = BLACK

\* C26: the sentinel is BLACK in every reachable state and at every step
\* inside the insert fixup and the delete fixup: no statement that paints a
\* node RED (grandparent, parent, sibling w) is applied to the sentinel.
C26_SentinelBlack ==
  /\ node[NIL].color = BLACK
  /\ out.op \in {"insert", "delete"} => (~out.nil /\ out.same)

\* C26 witness: a delete whose replacement point x was the sentinel has run
\* the fixup loop from it, and the sentinel is BLACK.
C26_Witness ==
  /\ out.op = "delete"
  /\ out.yc = BLACK
  /\ out.iters >= 1
  /\ node[NIL].parent # NIL
  /\ ~out.nil
  /\ node[NIL].color = BLACK

\* The payloads met by an in-order walk of the tree, first to last.
InOrder == Entries(TreeFilter(Tree, [f |-> "always", ud |-> 0]))

\* The in-order walk meets each payload that was inserted and not deleted
\* since exactly once and nothing else; the nodes linked under the root are
\* the allocated ones, each holding the payload it was made for; a deleted
\* node is gone.
NodesAreLive ==
  /\ Len(InOrder) = Cardinality(live)
  /\ {InOrder[i] : i \in 1..Len(InOrder)} = live
  /\ Len(born) = Cardinality(live)
  /\ {born[i] : i \in 1..Len(born)} = live
  /\ Sub(root) = allocd
  /\ \A x \in allocd : AddrOf(node[x].data) = x
  /\ out.op = "delete" => out.node \notin allocd

\* An insert adds exactly its node, a delete removes exactly the node passed.
ByInsertDelete ==
  /\ out'.op = "insert" => (out'.node \notin allocd /\ allocd' = allocd \cup {out'.node})
  /\ out'.op = "delete" => (out'.node \in allocd /\ allocd' = allocd \ {out'.node})

\* C27 as stated: after any sequence of operations the in-order walk meets
\* exactly the inserted payloads minus those of deleted nodes; an insert adds
\* exactly one node, a delete removes exactly the node passed to it, and no
\* other operation adds or removes a node.
C27_NodeLifecycle ==
  /\ []NodesAreLive
  /\ [][/\ ByInsertDelete
        /\ out'.op \notin {"insert", "delete"} => allocd' = allocd]_vars

\* C27, amended: the same, except that gc_rb_tree_free_all_nodes, an operation
\* that is neither insert nor delete, removes every node; the operations that
\* only read the tree add and remove none.
C27_NodesByInsertDeleteClear ==
  /\ []NodesAreLive
  /\ [][/\ ByInsertDelete
        /\ out'.op = "free_all_nodes" => (allocd' = {} /\ root' = NIL)
        /\ out'.op \notin {"insert", "delete", "free_all_nodes"} =>
             (allocd' = allocd /\ root' = root /\ node' = node)]_vars

\* C27 witness: a node with two children has been deleted, one of two equal
\* payloads, and the walk meets the other payloads.
C27_Witness ==
  /\ out.op = "delete"
  /\ out.two
  /\ Cardinality(live) >= 3
  /\ \E p \in live : p.key = ((out.node - 1) % MaxKey) + 1
  /\ NodesAreLive

\* The live payloads a bound query for key k may return: at or beyond k on
\* the side given by dir (1: not below k, -1: not above k).
Qualifying(k, inclusive, dir) ==
  {p \in live : (p.key - k) * dir > 0 \/ (inclusive /\ p.key = k)}

\* C28: for every tree and key, lower_bound returns the node with the
\* smallest payload >= key (inclusive) or > key (exclusive), upper_bound the
\* node with the largest payload <= key (inclusive) or < key (exclusive), and
\* each returns none when no payload qualifies.
C28_BoundQueries ==
  out.op \in {"lower_bound", "upper_bound"} =>
    LET dir == IF out.op = "lower_bound" THEN 1 ELSE -1
        q == Qualifying(out.key, out.inclusive, dir)
    IN  IF q = {} THEN out.ret = NULLN
        ELSE /\ out.ret \in Sub(root)
             /\ node[out.ret].data \in q
             /\ \A p \in q : (p.key - node[out.ret].data.key) * dir >= 0

\* C28 witness: an exclusive upper_bound for a key that is in a tree of at
\* least five nodes returned the node just before it, which is not a child
\* or parent of that key's node.
C28_Witness ==
  /\ out.op = "upper_bound"
  /\ ~out.inclusive
  /\ Cardinality(live) >= 5
  /\ out.ret \in Sub(root)
  /\ \E z \in Sub(root) :
       /\ node[z].data.key = out.key
       /\ node[z].left # out.ret
       /\ node[z].parent # out.ret

\* The payloads of key k in sequence q, in the order of q.
OfKey(q, k) == SelectSeq(q, LAMBDA e : e.key = k)

\* C29: payloads that compare equal all stay in the tree, and the in-order
\* walk meets them in the order in which they were inserted, also after later
\* rotations, inserts and deletes of other nodes.
C29_DuplicateOrder ==
  /\ \A i \in 1..(Len(InOrder) - 1) : InOrder[i].key <= InOrder[i + 1].key
  /\ \A k \in 1..MaxDupKey : OfKey(InOrder, k) = OfKey(born, k)

\* C29 witness: two equal payloads were inserted second copy first, other
\* payloads came later, a node of another key has just been deleted, and one
\* of the equal payloads sits in the left subtree of the other's node.
C29_Witness ==
  /\ out.op = "delete"
  /\ \E k \in 1..MaxTwinKey :
       /\ OfKey(born, k) = <<Obj(k, 2), Obj(k, 1)>>
       /\ OfKey(InOrder, k) = <<Obj(k, 2), Obj(k, 1)>>
       /\ born[1] = Obj(k, 2)
       /\ out.node \notin {AddrOf(Obj(k, 1)), AddrOf(Obj(k, 2))}
       /\ AddrOf(Obj(k, 2)) \in Sub(node[AddrOf(Obj(k, 1))].left)
  /\ Cardinality(live) >= 4

\* C30: after any sequence of gc_hash_insert and gc_hash_remove calls every
\* later gc_hash_find, gc_hash_insert and gc_hash_remove returns: the probe
\* reaches an EMPTY slot or the key, because the slots that are not occupied
\* are never all tombstones.
C30_ProbeTerminates ==
  /\ ~ht.tb.hang
  /\ \E i \in 0..(ht.tb.capacity - 1) : ht.tb.items[i].state = GC_SLOT_EMPTY
  /\ \A k \in 0..MaxHKey :
       /\ HashFind(ht.tb, k) # HANGS
       /\ ~HashInsert(ht.tb, k, 1).hang
       /\ ~HashRemove(ht.tb, k).t.hang

\* The nodes met walking down from x through left and right links, each as
\* often as it is met, to a depth of d links.
RECURSIVE Visits(_, _)
Visits(x, d) ==
  IF x = NIL \/ d = 0 THEN <<>>
  ELSE <<x>> \o Visits(node[x].left, d - 1) \o Visits(node[x].right, d - 1)

\* C31: after every completed insert and delete the root's parent is the
\* sentinel, each non-sentinel child of a node reachable from the root has
\* that node as its parent, the sentinel's left and right links point to the
\* sentinel, and the nodes reachable from the root form a tree: each is
\* reached exactly once and there is no cycle.
C31_LinksWellFormed ==
  out.op \in {"insert", "delete"} =>
    LET v == Visits(root, Cardinality(allocd) + 1) IN
    /\ node[root].parent = NIL
    /\ node[NIL].left = NIL
    /\ node[NIL].right = NIL
    /\ \A i, j \in 1..Len(v) : v[i] = v[j] => i = j
    /\ {v[i] : i \in 1..Len(v)} = allocd
    /\ \A i \in 1..Len(v) :
         /\ node[v[i]].left # NIL => node[node[v[i]].left].parent = v[i]
         /\ node[v[i]].right # NIL => node[node[v[i]].right].parent = v[i]

\* C31 witness: a delete has completed in a tree that keeps at least five
\* nodes, the sentinel's parent link points at a real node (transplant wrote
\* it), and some node has two children and a grandchild.
C31_Witness ==
  /\ out.op = "delete"
  /\ Cardinality(allocd) >= 5
  /\ node[NIL].parent # NIL
  /\ node[root].parent = NIL
  /\ \E x \in allocd : node[x].left # NIL /\ node[x].right # NIL
                       /\ node[node[x].right].left # NIL

\* C32: insert and delete copy no payload from one node to another: every
\* node that survives the operation holds the payload it held before, so a
\* node found by search before another node is deleted still identifies its
\* payload; the delete of a node with two children links its successor node
\* into its place (under its parent, with its left subtree and colour) before
\* the fixup runs.
C32_StableNodes ==
  [][out'.op \in {"insert", "delete"} =>
       /\ \A x \in allocd \cap allocd' : node'[x].data = node[x].data
       /\ \A k \in 1..MaxDupKey :
            TreeSearch(Tree, Probe(k)) \in allocd' =>
              node'[TreeSearch(Tree, Probe(k))].data = TreeFind(Tree, Probe(k))
       /\ (out'.op = "delete" /\ out'.two) =>
            LET y == Minimum(Tree, node[out'.node].right)
                U == DelUnlink(Tree, out'.node).t
            IN  /\ y \in allocd'
                /\ U.n[y].data = node[y].data
                /\ U.n[y].left = node[out'.node].left
                /\ U.n[y].color = node[out'.node].color
                /\ U.n[y].parent = node[out'.node].parent
                /\ IF out'.node = root THEN U.root = y
                   ELSE y \in {U.n[node[out'.node].parent].left,
                               U.n[node[out'.node].parent].right}]_vars

\* C32 witness: a node with two children that was not the root has been
\* deleted, and every remaining node holds the payload it was made for.
C32_Witness ==
  /\ out.op = "delete"
  /\ out.two
  /\ \A x \in allocd : AddrOf(node[x].data) = x
  /\ Cardinality(allocd) >= 4
  /\ node[root].data.key # ((out.node - 1) % MaxKey) + 1

\* The live payloads still ahead of range iterator r: beyond its current
\* payload in its direction and within its opposite bound.
Ahead(r) ==
  {p \in live :
     IF r.reverse
     THEN /\ p.key < node[r.cur].data.key
          /\ ~BelowLow(Sign(p.key, r.low.key), r.flags)
     ELSE /\ p.key > node[r.cur].data.key
          /\ ~AboveHigh(Sign(p.key, r.high.key), r.flags)}

\* C33: once range_next steps past the opposite bound or past the last
\* element the range iterator is exhausted: range_valid is false, range_data
\* is NULL, and every further range_next leaves it so; a plain iterator that
\* has run off either end stays invalid under every further next and prev.
C33_ExhaustionAbsorbing ==
  /\ [](rit.open /\ rit.r.cur = NULLN =>
          ~RangeValid(Tree, rit.r) /\ RangeData(Tree, rit.r) = NULLP)
  /\ [](it.kind # "none" /\ it.cur = NULLN =>
          ~IteratorValid(Tree, it.cur) /\ IteratorData(Tree, it.cur) = NULLP)
  /\ [][(out'.op = "range_next" /\ rit.r.cur = NULLN) =>
          (rit' = rit /\ ub' = "no")]_vars
  /\ [][(/\ out'.op = "range_next"
         /\ rit.r.cur # NULLN
         /\ rit.r.low # NULLP
         /\ rit.r.high # NULLP
         /\ Ahead(rit.r) = {}) => (rit'.open /\ rit'.r.cur = NULLN)]_vars
  /\ [][(out'.op \in {"iterator_next", "iterator_prev"} /\ it.cur = NULLN) =>
          (it'.cur = NULLN /\ ~IteratorValid(Tree', it'.cur))]_vars

\* C33 witness: a range iterator that yielded two payloads has stepped past
\* its opposite bound while a larger payload is in the tree, and is exhausted.
C33_Witness ==
  /\ out.op = "range_next"
  /\ rit.open
  /\ ~rit.r.reverse
  /\ rit.r.cur = NULLN
  /\ Len(rit.hist) = 2
  /\ \E p \in live : p.key > rit.hist[2].key
  /\ ~RangeValid(Tree, rit.r)

\* The rotations of all iterations of a fixup loop.
RECURSIVE Rotations(_)
Rotations(turns) == IF turns = <<>> THEN 0 ELSE Head(turns).rot + Rotations(Tail(turns))

\* C34: for every insert the loop of insert_fixup ends, after at most half as
\* many iterations as the tree has nodes, with at most two rotations in all:
\* an iteration of the uncle-RED case makes no rotation and moves k up two
\* levels, one of the uncle-BLACK case makes one or two rotations and is the
\* last.
C34_InsertFixupBounded ==
  out.op = "insert" =>
    /\ 2 * Len(out.turns) <= Cardinality(allocd)
    /\ Rotations(out.turns) <= 2
    /\ \A i \in 1..Len(out.turns) :
         /\ out.turns[i].rot \in 0..2
         /\ out.turns[i].rot = 0 => out.turns[i].up = 2
         /\ out.turns[i].rot > 0 => out.turns[i].last /\ i = Len(out.turns)
         /\ out.turns[i].last <=> i = Len(out.turns)

\* C34 witness: an insert whose fixup recoloured once, moved up two levels
\* and then ended with two rotations.
C34_Witness ==
  /\ out.op = "insert"
  /\ Len(out.turns) = 2
  /\ out.turns[1].rot = 0
  /\ out.turns[1].up = 2
  /\ out.turns[2].rot = 2

\* C35: for every delete the walk of delete_fixup ends, after at most as many
\* iterations as the tree has nodes, with at most three rotations in all; an
\* iteration of the far-child-RED case is the last, and the sibling w is never
\* the sentinel.
C35_DeleteFixupBounded ==
  out.op = "delete" =>
    /\ Len(out.turns) <= Cardinality(allocd) + 1
    /\ Rotations(out.turns) <= 3
    /\ \A i \in 1..Len(out.turns) :
         /\ out.turns[i].far => out.turns[i].last
         /\ ~out.turns[i].wnil
         /\ out.turns[i].last <=> i = Len(out.turns)

\* C35 witness: a delete whose walk moved up once on a BLACK sibling with
\* BLACK children and ended in a later iteration with the far-child-RED case.
C35_Witness ==
  /\ out.op = "delete"
  /\ Len(out.turns) = 2
  /\ ~out.turns[1].far
  /\ out.turns[2].far
  /\ out.turns[2].rot >= 1

\* The numbers of real nodes on the paths from x down to the sentinel.
RECURSIVE PathLengths(_)
PathLengths(x) ==
  IF x = NIL THEN {0}
  ELSE {n + 1 : n \in PathLengths(node[x].left) \cup PathLengths(node[x].right)}

\* C36: after every insert and delete the longest path from the root to the
\* sentinel has at most twice as many real nodes as the shortest.
C36_Balanced ==
  out.op \in {"insert", "delete"} =>
    \A long, short \in PathLengths(root) : long <= 2 * short

\* C36 witness: after a delete the tree has a path of four nodes and a path
\* of two, the bound met with equality.
C36_Witness ==
  /\ out.op = "delete"
  /\ 4 \in PathLengths(root)
  /\ 2 \in PathLengths(root)

\* The operations that only read the tree.
QueryOps ==
  {"search", "find", "min", "max", "successor", "predecessor",
   "iterator_begin", "iterator_rbegin", "iterator_next", "iterator_prev",
   "range_begin", "range_rbegin", "range_next",
   "slice", "filter", "filter_with_da", "validate"}

C38_TeardownRepeatable ==
  (out.op \in {"clean_up", "destroy"} /\ out.again) => mem.bad = {}

\* The first teardown of a tree, clean_up or destroy, commits no memory error
\* and releases every node, the sentinel once, and with destroy the record.
FirstTeardownClean ==
  (out.op \in {"clean_up", "destroy"} /\ ~out.again) =>
    /\ mem.bad = {}
    /\ allocd = {}
    /\ mem.nil = "freed"
    /\ mem.nilp = NULLN
    /\ root = NIL
    /\ out.op = "destroy" <=> mem.tree = "freed"

====
